---- MODULE Spec2Model ----
(***************************************************************************)
(* State-machine model of the runtime core of rust_game_engine: the frame  *)
(* loop (lib.rs), the entity graph (entity.rs), the space delegates        *)
(* (entity/space.rs), the instance synchronisation engine                  *)
(* (render/instance.rs), the shared queue cells (util.rs) and the deferred *)
(* event bus (event.rs).                                                   *)
(*                                                                         *)
(* f32 coordinates are modelled by small integers, on which f32 addition   *)
(* and multiplication are exact.  A Vector3 is a 3-tuple, a Quaternion is  *)
(* the 4-tuple <<s, x, y, z>> (cgmath's Quaternion::new(w, xi, yj, zk)).   *)
(* Shared cells (Rc<RefCell<T>>) are modelled as heap slots addressed by   *)
(* an index; a clone of a handle is the same index.                        *)
(***************************************************************************)
EXTENDS Integers, Sequences, FiniteSets, TLC

VARIABLES
    in_loop,            \* FALSE until the start-up do_tick of run() has finished
    entities,           \* EntityManager.entities; index = address of the shared cell
    map,                \* IdManager.map: id -> ObjectWrap
    hasher,             \* IdManager.hasher: number of ids issued so far
    instance_manager,   \* InstanceManager fields (record)
    change_cells,       \* heap of QueueBufferRef.buffer cells (one Vec per cell)
    buffer_id_cells,    \* heap of Instance.buffer_id cells
    event_queue,        \* EventDispatcher.event_queue
    destinations,       \* EventDispatcher.destinations
    frame_log,          \* calls made by the last handler on the managers, in order
    write_log,          \* queue.write_buffer calls issued by the last handler
    last_tick,          \* path taken by the instance tick of the last handler
    input_log,          \* Entity::input calls made by the last handler
    render_commands,    \* render commands pushed by the last handler
    notice_log,         \* notices printed by the last handler, in order
    init_log,           \* Entity::init_child calls made by the last handler
    resolved,           \* what IdManager::get returned to the last handler, if called
    space_call,         \* the space-delegate method the last handler was, if it was one
    component_log,      \* calls the last handler made on components, in order
    life_log,           \* the steps of new_entity, if the last handler was one
    response,           \* the Response the last handler returned, if it returns one
    aborted,            \* TRUE once a panic has terminated the process
    hung,               \* TRUE once a handler has entered a loop it never leaves
    hist                \* history of the run (record), read only by the properties

vars == <<in_loop, entities, map, hasher, instance_manager, change_cells,
          buffer_id_cells, event_queue, destinations, frame_log, write_log,
          last_tick, input_log, render_commands, notice_log, init_log,
          resolved, space_call, component_log, life_log, response,
          aborted, hung, hist>>

----
\* Bounds of the model.

\* most calls the environment makes in one run on the entity manager, the
\* instance manager, the instance handles and the event dispatcher together
MaxEnv == 4

\* the longest list of responses folded by one input call
MaxFold == 4

----
\* Input domains.

\* descriptor positions (EntityDesc.position, InstanceDesc.position)
PosDomain == {<<1, 2, 0>>}
\* descriptor rotations, in the order [w, x, y, z] read by the space master
DescRotDomain == {<<1, 0, 0, 0>>}
\* vector passed to add_pos through a handle
AddVec == <<1, 0, 0>>
\* vector passed to set_pos through a handle
SetVec == <<0, 1, 0>>
\* tuples passed to set_rot / add_rot through a handle, in the order (x, y, z, w)
RotDomain == {<<1, 0, 0, 0>>}
\* destination names of the event bus
DestDomain == {"a", "x"}

----
\* Sequencing of a computation: the value of F at e, with e evaluated once
\* (let x = e; F(x)).
With(e, F(_)) == CHOOSE r \in {F(x) : x \in {e}} : TRUE

----
\* cgmath helpers used by render/instance.rs.

Vector3_from(t) == <<t[1], t[2], t[3]>>

Vector3_add(a, b) == <<a[1] + b[1], a[2] + b[2], a[3] + b[3]>>

Quaternion_new(w, xi, yj, zk) == <<w, xi, yj, zk>>

\* Quaternion::from((xi, yj, zk, w))
Quaternion_from(t) == Quaternion_new(t[4], t[1], t[2], t[3])

Quaternion_add(a, b) == <<a[1] + b[1], a[2] + b[2], a[3] + b[3], a[4] + b[4]>>

\* Matrix3::from(Quaternion), column major
Matrix3_from(q) ==
    LET s == q[1]  x == q[2]  y == q[3]  z == q[4]
        x2 == x + x  y2 == y + y  z2 == z + z
        xx2 == x2 * x  xy2 == x2 * y  xz2 == x2 * z
        yy2 == y2 * y  yz2 == y2 * z  zz2 == z2 * z
        sy2 == y2 * s  sz2 == z2 * s  sx2 == x2 * s
    IN  << <<1 - yy2 - zz2, xy2 + sz2, xz2 - sy2>>,
           <<xy2 - sz2, 1 - xx2 - zz2, yz2 + sx2>>,
           <<xz2 + sy2, yz2 - sx2, 1 - xx2 - yy2>> >>

\* Matrix4::from_translation(p) * Matrix4::from(q), column major
Matrix4_model(p, q) ==
    LET r == Matrix3_from(q)
    IN  << <<r[1][1], r[1][2], r[1][3], 0>>,
           <<r[2][1], r[2][2], r[2][3], 0>>,
           <<r[3][1], r[3][2], r[3][3], 0>>,
           <<p[1], p[2], p[3], 1>> >>

\* Matrix2::from_cols(Vector2(p.x, p.y), Vector2(1, 1))
Matrix2_sprite(p) == << <<p[1], p[2]>>, <<1, 1>> >>

----
\* render/instance.rs

INSTANCE_RAW_3D_SIZE == 100
INSTANCE_RAW_2D_SIZE == 16

InstanceType == {"Model", "Sprite"}

PositionSet(v) == [op |-> "PositionSet", arg |-> v]
PositionAdd(v) == [op |-> "PositionAdd", arg |-> v]
RotationSet(r) == [op |-> "RotationSet", arg |-> r]
RotationAdd(r) == [op |-> "RotationAdd", arg |-> r]

\* InstanceChange values the environment may push through a handle
InstanceChange ==
    {PositionSet(SetVec), PositionAdd(AddVec)}
    \cup {RotationSet(r) : r \in RotDomain} \cup {RotationAdd(r) : r \in RotDomain}

InstanceDesc == [instance_type : InstanceType, position : PosDomain,
                 rotation : {Quaternion_new(r[1], r[2], r[3], r[4]) : r \in DescRotDomain}]

\* Instance::to_raw
to_raw(inst) ==
    IF inst.instance_type = "Model"
    THEN [kind |-> "Model",
          model |-> Matrix4_model(inst.position, inst.rotation),
          normal |-> Matrix3_from(inst.rotation)]
    ELSE [kind |-> "Sprite", sprite |-> Matrix2_sprite(inst.position)]

\* Instance::get_ref: a handle shares the instance's queue cell and slot cell
get_ref(inst) == [changes_buffer |-> inst.change_buffer, gpu_buffer_id |-> inst.buffer_id]

\* InstanceRef::get_instance_id
get_instance_id(bcells, ref) == bcells[ref.gpu_buffer_id]

\* InstanceManager::new
InstanceManager_new ==
    [instances |-> << >>, instance_3d_buffer |-> << >>, instance_2d_buffer |-> << >>,
     n_3d_buffer |-> 0, n_2d_buffer |-> 0, needs_buffer_remake |-> TRUE]

\* The part of the state the instance engine and its handles work on.
EngineState(im, ccells, bcells) == [im |-> im, ccells |-> ccells, bcells |-> bcells]

\* register_instance without the assignment needs_buffer_remake = true
register_instance_clean(st, instance_desc) ==
    LET im == st.im
        buf_id == IF instance_desc.instance_type = "Model"
                  THEN im.n_3d_buffer ELSE im.n_2d_buffer
        instance == [instance_type |-> instance_desc.instance_type,
                     change_buffer |-> Len(st.ccells) + 1,
                     position |-> instance_desc.position,
                     rotation |-> instance_desc.rotation,
                     buffer_id |-> Len(st.bcells) + 1]
    IN  [im |-> [im EXCEPT
                   !.n_3d_buffer = IF instance_desc.instance_type = "Model"
                                   THEN @ + 1 ELSE @,
                   !.n_2d_buffer = IF instance_desc.instance_type = "Sprite"
                                   THEN @ + 1 ELSE @,
                   !.instances = Append(@, instance)],
         ccells |-> Append(st.ccells, << >>),
         bcells |-> Append(st.bcells, buf_id),
         ref |-> get_ref(instance)]

\* register_instance taking the slot from one counter shared by both types
register_instance_one_counter(st, instance_desc) ==
    LET im == st.im
        buf_id == im.n_3d_buffer + im.n_2d_buffer
        instance == [instance_type |-> instance_desc.instance_type,
                     change_buffer |-> Len(st.ccells) + 1,
                     position |-> instance_desc.position,
                     rotation |-> instance_desc.rotation,
                     buffer_id |-> Len(st.bcells) + 1]
    IN  [im |-> [im EXCEPT
                   !.n_3d_buffer = IF instance_desc.instance_type = "Model"
                                   THEN @ + 1 ELSE @,
                   !.n_2d_buffer = IF instance_desc.instance_type = "Sprite"
                                   THEN @ + 1 ELSE @,
                   !.instances = Append(@, instance),
                   !.needs_buffer_remake = TRUE],
         ccells |-> Append(st.ccells, << >>),
         bcells |-> Append(st.bcells, buf_id),
         ref |-> get_ref(instance)]

\* register_instance handing out the counter after the increment
register_instance_counts_from_one(st, instance_desc) ==
    LET im == st.im
        buf_id == IF instance_desc.instance_type = "Model"
                  THEN im.n_3d_buffer + 1 ELSE im.n_2d_buffer + 1
        instance == [instance_type |-> instance_desc.instance_type,
                     change_buffer |-> Len(st.ccells) + 1,
                     position |-> instance_desc.position,
                     rotation |-> instance_desc.rotation,
                     buffer_id |-> Len(st.bcells) + 1]
    IN  [im |-> [im EXCEPT
                   !.n_3d_buffer = IF instance_desc.instance_type = "Model"
                                   THEN @ + 1 ELSE @,
                   !.n_2d_buffer = IF instance_desc.instance_type = "Sprite"
                                   THEN @ + 1 ELSE @,
                   !.instances = Append(@, instance),
                   !.needs_buffer_remake = TRUE],
         ccells |-> Append(st.ccells, << >>),
         bcells |-> Append(st.bcells, buf_id),
         ref |-> get_ref(instance)]

\* InstanceManager::register_instance; the result carries the returned handle
register_instance(st, instance_desc) ==
    LET im == st.im
        buf_id == IF instance_desc.instance_type = "Model"
                  THEN im.n_3d_buffer ELSE im.n_2d_buffer
        instance == [instance_type |-> instance_desc.instance_type,
                     change_buffer |-> Len(st.ccells) + 1,
                     position |-> instance_desc.position,
                     rotation |-> instance_desc.rotation,
                     buffer_id |-> Len(st.bcells) + 1]
    IN  [im |-> [im EXCEPT
                   !.n_3d_buffer = IF instance_desc.instance_type = "Model"
                                   THEN @ + 1 ELSE @,
                   !.n_2d_buffer = IF instance_desc.instance_type = "Sprite"
                                   THEN @ + 1 ELSE @,
                   !.instances = Append(@, instance),
                   !.needs_buffer_remake = TRUE],
         ccells |-> Append(st.ccells, << >>),
         bcells |-> Append(st.bcells, buf_id),
         ref |-> get_ref(instance)]

\* the records of one type, in instance-list order (the loop of remake_buffer)
RECURSIVE raw_of_type(_, _)
raw_of_type(insts, kind) ==
    IF insts = << >> THEN << >>
    ELSE With(to_raw(Head(insts)),
              LAMBDA r : IF r.kind = kind THEN <<r>> ELSE << >>)
         \o raw_of_type(Tail(insts), kind)

\* remake_buffer that also empties every queue cell without applying it
remake_buffer_draining(st) ==
    [st EXCEPT !.im.instance_3d_buffer = raw_of_type(st.im.instances, "Model"),
               !.im.instance_2d_buffer = raw_of_type(st.im.instances, "Sprite"),
               !.im.needs_buffer_remake = FALSE,
               !.ccells = [c \in DOMAIN st.ccells |-> << >>]]

\* InstanceManager::remake_buffer
remake_buffer(st) ==
    [st EXCEPT !.im.instance_3d_buffer = raw_of_type(st.im.instances, "Model"),
               !.im.instance_2d_buffer = raw_of_type(st.im.instances, "Sprite"),
               !.im.needs_buffer_remake = FALSE]

\* the loop body of Instance::tick: one queued change applied to the instance
apply_change(inst, change) ==
    CASE change.op = "PositionSet" -> [inst EXCEPT !.position = Vector3_from(change.arg)]
      [] change.op = "PositionAdd" ->
            [inst EXCEPT !.position = Vector3_add(@, Vector3_from(change.arg))]
      [] change.op = "RotationSet" -> [inst EXCEPT !.rotation = Quaternion_from(change.arg)]
      [] change.op = "RotationAdd" ->
            [inst EXCEPT !.rotation = Quaternion_add(@, Quaternion_from(change.arg))]

\* the drained changes applied last to first
RECURSIVE apply_changes_reversed(_, _)
apply_changes_reversed(inst, changes) ==
    IF changes = << >> THEN inst
    ELSE apply_changes_reversed(apply_change(inst, changes[Len(changes)]),
                                SubSeq(changes, 1, Len(changes) - 1))

\* the for loop of Instance::tick over the drained changes, first to last
RECURSIVE apply_changes(_, _)
apply_changes(inst, changes) ==
    IF changes = << >> THEN inst
    ELSE apply_changes(apply_change(inst, Head(changes)), Tail(changes))

\* get_buffer that copies the Vec and leaves it in the shared cell
get_buffer_keeping(ccells, cell) == [changes |-> ccells[cell], ccells |-> ccells]

\* QueueBuffer::get_buffer: swaps the Vec inside the shared cell for an empty one
get_buffer(ccells, cell) == [changes |-> ccells[cell], ccells |-> [ccells EXCEPT ![cell] = << >>]]

\* QueueBufferRef::push
push(ccells, cell, e) == [ccells EXCEPT ![cell] = Append(@, e)]

\* write_to_buffer that writes at byte offset 0 whatever the slot
write_to_buffer_at_start(im, bcells, inst) ==
    LET raw == to_raw(inst)
        buf == IF raw.kind = "Model" THEN im.instance_3d_buffer ELSE im.instance_2d_buffer
        newbuf == IF 1 <= Len(buf) THEN [buf EXCEPT ![1] = raw] ELSE buf
    IN  [im |-> IF raw.kind = "Model"
                THEN [im EXCEPT !.instance_3d_buffer = newbuf]
                ELSE [im EXCEPT !.instance_2d_buffer = newbuf],
         write |-> [buffer |-> IF raw.kind = "Model" THEN "3d" ELSE "2d",
                    offset |-> 0]]

\* Instance::write_to_buffer: a queue.write_buffer call at byte offset slot * size
write_to_buffer(im, bcells, inst) ==
    LET raw == to_raw(inst)
        size == IF raw.kind = "Model" THEN INSTANCE_RAW_3D_SIZE ELSE INSTANCE_RAW_2D_SIZE
        offset == bcells[inst.buffer_id] * size
        slot == (offset \div size) + 1
        buf == IF raw.kind = "Model" THEN im.instance_3d_buffer ELSE im.instance_2d_buffer
        newbuf == IF slot <= Len(buf) THEN [buf EXCEPT ![slot] = raw] ELSE buf
    IN  [im |-> IF raw.kind = "Model"
                THEN [im EXCEPT !.instance_3d_buffer = newbuf]
                ELSE [im EXCEPT !.instance_2d_buffer = newbuf],
         write |-> [buffer |-> IF raw.kind = "Model" THEN "3d" ELSE "2d",
                    offset |-> offset]]

\* Instance::tick that gives the instance a new, empty queue cell after
\* draining, leaving the handles on the old cell
Instance_tick_fresh_queue(st, i) ==
    With(get_buffer(st.ccells, st.im.instances[i].change_buffer), LAMBDA got :
    With([st.im EXCEPT !.instances[i].change_buffer = Len(got.ccells) + 1],
         LAMBDA im :
        IF got.changes = << >>
        THEN [im |-> im, ccells |-> Append(got.ccells, << >>), bcells |-> st.bcells,
              writes |-> << >>]
        ELSE With(apply_changes(im.instances[i], got.changes), LAMBDA ninst :
             With(write_to_buffer([im EXCEPT !.instances[i] = ninst],
                                  st.bcells, ninst), LAMBDA w :
                 [im |-> w.im, ccells |-> Append(got.ccells, << >>),
                  bcells |-> st.bcells, writes |-> <<w.write>>]))))

\* Instance::tick on instance number i; the result carries the writes issued
Instance_tick(st, i) ==
    With(get_buffer(st.ccells, st.im.instances[i].change_buffer), LAMBDA got :
        IF got.changes = << >>
        THEN [im |-> st.im, ccells |-> got.ccells, bcells |-> st.bcells, writes |-> << >>]
        ELSE With(apply_changes(st.im.instances[i], got.changes), LAMBDA ninst :
             With(write_to_buffer([st.im EXCEPT !.instances[i] = ninst],
                                  st.bcells, ninst), LAMBDA w :
                 [im |-> w.im, ccells |-> got.ccells, bcells |-> st.bcells,
                  writes |-> <<w.write>>])))

\* the loop of InstanceManager::tick over instances i, i+1, ...
RECURSIVE tick_instances(_, _)
tick_instances(st, i) ==
    IF i > Len(st.im.instances) THEN [st EXCEPT !.writes = << >>]
    ELSE With(Instance_tick(st, i), LAMBDA one :
         With(tick_instances([im |-> one.im, ccells |-> one.ccells,
                              bcells |-> one.bcells, writes |-> << >>], i + 1),
              LAMBDA rest : [rest EXCEPT !.writes = one.writes \o @]))

\* InstanceManager::tick that never rebuilds
InstanceManager_tick_partial_only(st) ==
    With(tick_instances([im |-> st.im, ccells |-> st.ccells,
                         bcells |-> st.bcells, writes |-> << >>], 1),
         LAMBDA r :
        [im |-> r.im, ccells |-> r.ccells, bcells |-> r.bcells,
         writes |-> r.writes, path |-> "partial"])

\* InstanceManager::tick; the result carries the path taken and the writes issued
InstanceManager_tick(st) ==
    IF st.im.needs_buffer_remake
    THEN With(remake_buffer(st), LAMBDA r :
             [im |-> r.im, ccells |-> r.ccells, bcells |-> r.bcells,
              writes |-> << >>, path |-> "rebuild"])
    ELSE With(tick_instances([im |-> st.im, ccells |-> st.ccells,
                              bcells |-> st.bcells, writes |-> << >>], 1),
              LAMBDA r :
             [im |-> r.im, ccells |-> r.ccells, bcells |-> r.bcells,
              writes |-> r.writes, path |-> "partial"])

\* a handle call that applies the change to the instance at once, unqueued
InstanceRef_push_immediate(st, ref, change) ==
    [st EXCEPT !.im.instances =
        [i \in DOMAIN @ |-> IF @[i].change_buffer = ref.changes_buffer
                            THEN apply_change(@[i], change) ELSE @[i]]]

\* InstanceRef::set_pos / add_pos / set_rot / add_rot: one push on the shared queue
InstanceRef_push(st, ref, change) ==
    [st EXCEPT !.ccells = push(st.ccells, ref.changes_buffer, change)]

----
\* util.rs: IdManager

\* the value DefaultHasher::finish returns after n ids were issued; the hash
\* chain is abstracted by an injective, non-monotonic, non-zero table
IdOf(n) == ((n * 7 + 3) % 11) + 1

\* IdManager::next_id
next_id(w) == [id |-> IdOf(w.hasher), w |-> [w EXCEPT !.hasher = @ + 1]]

\* IdManager::register_entity: map.insert(id, ObjectWrap::Entity(cell))
register_entity(m, id, cell) ==
    [k \in (DOMAIN m) \cup {id} |->
        IF k = id THEN [kind |-> "Entity", cell |-> cell] ELSE m[k]]

\* register_component keeping the object an id already has
register_component_keep_first(m, id, component) ==
    IF id \in DOMAIN m THEN m
    ELSE [k \in (DOMAIN m) \cup {id} |->
            IF k = id THEN [kind |-> "Component", component |-> component] ELSE m[k]]

\* IdManager::register_component: map.insert(id, ObjectWrap::Component(cell))
register_component(m, id, component) ==
    [k \in (DOMAIN m) \cup {id} |->
        IF k = id THEN [kind |-> "Component", component |-> component] ELSE m[k]]

\* IdManager::get
IdManager_get(m, id) == IF id \in DOMAIN m THEN m[id] ELSE [kind |-> "None"]

----
\* entity/space.rs, render/render_3d.rs, entity/render_comp.rs: the delegates

NoSpaceMaster == [kind |-> "NoSpaceMaster"]
NoSpaceComponent == [kind |-> "NoSpaceComponent"]
GameSpaceMaster == [kind |-> "GameSpaceMaster"]
GameSpaceComponent(instance) == [kind |-> "GameSpaceComponent", instance |-> instance]
ScreenSpaceMaster == [kind |-> "ScreenSpaceMaster"]
ScreenSpaceComponent(instance) ==
    [kind |-> "ScreenSpaceComponent", instance |-> instance]

NoRender == [kind |-> "NoRender"]
SingleModelComponent(model_name, instance_ref) ==
    [kind |-> "SingleModelComponent", model_name |-> model_name,
     instance_ref |-> instance_ref]
SingleSpriteComponent(sprite_name, instance_ref) ==
    [kind |-> "SingleSpriteComponent", sprite_name |-> sprite_name,
     instance_ref |-> instance_ref]

\* util::pad as used by the space masters: the first n elements, filled up
pad(v, n, fill) == [i \in 1..n |-> IF i <= Len(v) THEN v[i] ELSE fill]

\* the world a handler works on: entity graph, registry and instance engine
EngineOf(w) == EngineState(w.im, w.ccells, w.bcells)

\* init_child_entity registering the instance at the default position
GameSpaceMaster_init_child_entity_default(w, child, entity_desc, depth) ==
    With(pad(entity_desc.rotation, 4, 0), LAMBDA rot :
    With(register_instance(EngineOf(w),
             [instance_type |-> "Model",
              position |-> <<0, 0, 0>>,
              rotation |-> Quaternion_new(rot[1], rot[2], rot[3], rot[4])]),
         LAMBDA reg :
        [w EXCEPT !.im = reg.im, !.ccells = reg.ccells, !.bcells = reg.bcells,
                  !.entities[child].space_component = GameSpaceComponent(reg.ref),
                  !.entities[child].render_component =
                        SingleModelComponent("cube", reg.ref)]))

\* GameSpaceMaster::init_child_entity
GameSpaceMaster_init_child_entity(w, child, entity_desc, depth) ==
    With(pad(entity_desc.position, 3, 0), LAMBDA pos :
    With(pad(entity_desc.rotation, 4, 0), LAMBDA rot :
    With(register_instance(EngineOf(w),
             [instance_type |-> "Model",
              position |-> <<pos[1], pos[2], pos[3]>>,
              rotation |-> Quaternion_new(rot[1], rot[2], rot[3], rot[4])]),
         LAMBDA reg :
        [w EXCEPT !.im = reg.im, !.ccells = reg.ccells, !.bcells = reg.bcells,
                  !.entities[child].space_component = GameSpaceComponent(reg.ref),
                  !.entities[child].render_component =
                        SingleModelComponent("cube", reg.ref)])))

\* ScreenSpaceMaster::init_child_entity
ScreenSpaceMaster_init_child_entity(w, child, entity_desc, depth) ==
    With(pad(entity_desc.position, 2, 0), LAMBDA pos :
    With(pad(entity_desc.rotation, 4, 0), LAMBDA rot :
    With(register_instance(EngineOf(w),
             [instance_type |-> "Sprite",
              position |-> <<pos[1], pos[2], 0>>,
              rotation |-> Quaternion_new(rot[1], rot[2], rot[3], rot[4])]),
         LAMBDA reg :
        [w EXCEPT !.im = reg.im, !.ccells = reg.ccells, !.bcells = reg.bcells,
                  !.entities[child].space_component = ScreenSpaceComponent(reg.ref),
                  !.entities[child].render_component =
                        SingleSpriteComponent("cat", reg.ref)])))

\* SpaceComponent::init_child_entity, dispatched on the delegate of the ancestor
\* a master that leaves an entity alone once it holds a space delegate
init_child_entity_if_unset(w, space_component, child, entity_desc, depth) ==
    IF w.entities[child].space_component # NoSpaceComponent THEN w
    ELSE IF space_component.kind = "GameSpaceMaster"
    THEN GameSpaceMaster_init_child_entity(w, child, entity_desc, depth)
    ELSE IF space_component.kind = "ScreenSpaceMaster"
    THEN ScreenSpaceMaster_init_child_entity(w, child, entity_desc, depth)
    ELSE w

init_child_entity(w, space_component, child, entity_desc, depth) ==
    IF space_component.kind = "GameSpaceMaster"
    THEN GameSpaceMaster_init_child_entity(w, child, entity_desc, depth)
    ELSE IF space_component.kind = "ScreenSpaceMaster"
    THEN ScreenSpaceMaster_init_child_entity(w, child, entity_desc, depth)
    ELSE w

\* translate pushing whatever it is given, the missing elements read as zero
translate_unguarded(st, space_component, vector) ==
    IF space_component.kind \in {"GameSpaceComponent", "ScreenSpaceComponent"}
    THEN InstanceRef_push(st, space_component.instance,
                          PositionAdd(pad(vector, 3, 0)))
    ELSE st

\* SpaceComponent::translate, dispatched on the delegate
translate(st, space_component, vector) ==
    IF space_component.kind = "GameSpaceComponent" /\ Len(vector) = 3
    THEN InstanceRef_push(st, space_component.instance,
                          PositionAdd(<<vector[1], vector[2], vector[3]>>))
    ELSE IF space_component.kind = "ScreenSpaceComponent" /\ Len(vector) = 2
    THEN InstanceRef_push(st, space_component.instance,
                          PositionAdd(<<vector[1], vector[2], 0>>))
    ELSE st

\* SpaceComponent::rotate, dispatched on the delegate
rotate(st, space_component, vector) ==
    IF space_component.kind \in {"GameSpaceComponent", "ScreenSpaceComponent"}
       /\ Len(vector) = 4
    THEN InstanceRef_push(st, space_component.instance,
             RotationAdd(<<vector[1], vector[2], vector[3], vector[4]>>))
    ELSE st

\* SpaceComponent::set_pos, dispatched on the delegate
set_pos(st, space_component, vector) ==
    IF space_component.kind = "GameSpaceComponent" /\ Len(vector) = 3
    THEN InstanceRef_push(st, space_component.instance,
                          PositionSet(<<vector[1], vector[2], vector[3]>>))
    ELSE IF space_component.kind = "ScreenSpaceComponent" /\ Len(vector) = 2
    THEN InstanceRef_push(st, space_component.instance,
                          PositionSet(<<vector[1], vector[2], 0>>))
    ELSE st

\* SpaceComponent::set_rot, dispatched on the delegate
set_rot(st, space_component, vector) ==
    IF space_component.kind \in {"GameSpaceComponent", "ScreenSpaceComponent"}
       /\ Len(vector) = 4
    THEN InstanceRef_push(st, space_component.instance,
             RotationSet(<<vector[1], vector[2], vector[3], vector[4]>>))
    ELSE st

\* GameEvent::SendValueWith { string, value: ValueType::Float3(pos) }
SendValueWith(string, pos) ==
    [kind |-> "SendValueWith", string |-> string,
     value |-> [type |-> "Float3", pos |-> pos]]

\* SpaceComponent::input, dispatched on the delegate: a GameSpaceComponent
\* given SendValueWith "set" or "set pos" with a Float3 calls set_pos on its
\* instance handle and answers Strong; every other delegate and every other
\* event answers No
SpaceComponent_input(st, space_component, event) ==
    IF /\ space_component.kind = "GameSpaceComponent"
       /\ event.kind = "SendValueWith"
       /\ event.string \in {"set", "set pos"}
       /\ event.value.type = "Float3"
    THEN [st |-> InstanceRef_push(st, space_component.instance,
                                  PositionSet(event.value.pos)),
          response |-> "Strong"]
    ELSE [st |-> st, response |-> "No"]

\* the length the method of a GameSpaceComponent / ScreenSpaceComponent tests for
expected_len(space_component, method) ==
    IF method \in {"rotate", "set_rot"} THEN 4
    ELSE IF space_component.kind = "GameSpaceComponent" THEN 3 ELSE 2

\* the else branches of the four methods: the "[ERR] ... received vector of
\* wrong size" line printed; the masters and NoSpaceComponent print nothing
wrong_size(bcells, space_component, method, vector) ==
    IF space_component.kind \in {"GameSpaceComponent", "ScreenSpaceComponent"}
       /\ Len(vector) # expected_len(space_component, method)
    THEN << [kind |-> "wrong_size", component |-> space_component.kind,
             instance |-> get_instance_id(bcells, space_component.instance),
             method |-> method, len |-> Len(vector),
             expected |-> expected_len(space_component, method)] >>
    ELSE << >>

\* one of the four methods of a space delegate, by name
\* transform calling rotate before translate
transform_rotate_first(w, space_component, vector) ==
    With(rotate(EngineOf(w), space_component, vector), LAMBDA rotated :
    With(translate(rotated, space_component, vector), LAMBDA moved :
        [w EXCEPT !.ccells = moved.ccells,
                  !.notice_log = @
                      \o wrong_size(w.bcells, space_component, "rotate", vector)
                      \o wrong_size(w.bcells, space_component, "translate", vector)]))

\* SpaceComponent::transform, the default no implementation overrides:
\* self.translate(vector); self.rotate(vector)
transform(w, space_component, vector) ==
    With(translate(EngineOf(w), space_component, vector), LAMBDA moved :
    With(rotate(moved, space_component, vector), LAMBDA rotated :
        [w EXCEPT !.ccells = rotated.ccells,
                  !.notice_log = @
                      \o wrong_size(w.bcells, space_component, "translate", vector)
                      \o wrong_size(w.bcells, space_component, "rotate", vector)]))

SpaceComponent_call(st, space_component, method, vector) ==
    CASE method = "translate" -> translate(st, space_component, vector)
      [] method = "rotate" -> rotate(st, space_component, vector)
      [] method = "set_pos" -> set_pos(st, space_component, vector)
      [] method = "set_rot" -> set_rot(st, space_component, vector)

\* RenderComponent::render, dispatched on the delegate: the commands it pushes
RenderComponent_render(bcells, render_component) ==
    IF render_component.kind = "SingleModelComponent"
    THEN LET i == get_instance_id(bcells, render_component.instance_ref)
         IN  << [renderer |-> "3d", model |-> render_component.model_name,
                 instances |-> <<i, i + 1>>] >>
    ELSE IF render_component.kind = "SingleSpriteComponent"
    THEN LET i == get_instance_id(bcells, render_component.instance_ref)
         IN  << [renderer |-> "2d", model |-> render_component.sprite_name,
                 instances |-> <<i, i + 1>>] >>
    ELSE << >>

----
\* entity.rs

\* Entity::make_root
make_root ==
    [id |-> 0, parent_id |-> 0, children |-> << >>, render_component |-> NoRender,
     space_component |-> NoSpaceMaster, components |-> << >>]

\* Entity::make_space_master
make_space_master(id) ==
    [id |-> id, parent_id |-> 0, children |-> << >>, render_component |-> NoRender,
     space_component |-> GameSpaceMaster, components |-> << >>]

\* enum Response (event.rs)
Response == {"No", "Weak", "Strong"}

\* with answering Strong only when both arguments are Strong
Response_with_both(self, other) ==
    IF self = "Strong" /\ other = "Strong" THEN "Strong"
    ELSE IF self = "Weak" /\ other = "Weak" THEN "Weak"
    ELSE "No"

\* Response::with
Response_with(self, other) ==
    IF self = "Strong" \/ other = "Strong" THEN "Strong"
    ELSE IF self = "Weak" \/ other = "Weak" THEN "Weak"
    ELSE "No"

\* let mut output = Response::No; for ... { output = output.with(answer) }
RECURSIVE fold_with(_, _)
fold_with(output, answers) ==
    IF answers = << >> THEN output
    ELSE fold_with(Response_with(output, Head(answers)), Tail(answers))

\* a Component: its id and what its ComponentObject does, which is the
\* Response its input returns and whether its tick calls new_entity
Component(id, answer, on_tick) == [id |-> id, answer |-> answer, on_tick |-> on_tick]

\* one call on each component of the entity, in list order
component_calls(entity, call) ==
    [i \in DOMAIN entity.components |->
        [call |-> call, entity |-> entity.id, component |-> entity.components[i].id]]

\* Entity::init: render_component.init (empty for every delegate), then init
\* on each component
Entity_init(w, cell) ==
    [w EXCEPT !.component_log = @ \o component_calls(w.entities[cell], "init"),
              !.life_log = Append(@, [step |-> "init", entity |-> w.entities[cell].id])]

\* add_child pushing on the child list of the root
add_child_to_root(ents, parent_entity, child) ==
    [ents EXCEPT ![1].children = Append(@, child)]

\* Entity::add_child on the entity in this cell
\* add_child putting the child in the place of the children before it
add_child_replacing(ents, parent_entity, child) ==
    [ents EXCEPT ![parent_entity].children = <<child>>]

add_child(ents, parent_entity, child) ==
    [ents EXCEPT ![parent_entity].children = Append(@, child)]

\* Entity::init_child: the space delegate first, then the ordinary components
Entity_init_child(w, parent_cell, child, entity_desc, depth) ==
    With([w EXCEPT !.init_log =
                Append(@, [ancestor |-> w.entities[parent_cell].id,
                           child |-> child, depth |-> depth]),
                   !.life_log =
                Append(@, [step |-> "init_child",
                           ancestor |-> w.entities[parent_cell].id,
                           in_registry |->
                               IdManager_get(w.map, w.entities[child].id)
                                   = [kind |-> "Entity", cell |-> child],
                           in_child_list |->
                               \E p \in DOMAIN w.entities :
                                   /\ w.entities[p].id = w.entities[child].parent_id
                                   /\ \E k \in DOMAIN w.entities[p].children :
                                         w.entities[p].children[k] = child])],
         LAMBDA logged :
    With(init_child_entity(logged, logged.entities[parent_cell].space_component,
                           child, entity_desc, depth), LAMBDA spaced :
        [spaced EXCEPT !.component_log =
            @ \o component_calls(spaced.entities[parent_cell], "init_child_entity")]))

\* the cascade stopping at the direct parent
cascade_parent_only(w, parent_id, child, entity_desc, depth) ==
    IF parent_id = 0 THEN w
    ELSE Entity_init_child(w, IdManager_get(w.map, parent_id).cell, child,
                           entity_desc, depth)

\* the loop handing every ancestor the depth it started with
RECURSIVE cascade_same_depth(_, _, _, _, _)
cascade_same_depth(w, parent_id, child, entity_desc, depth) ==
    IF parent_id = 0 THEN w
    ELSE IF IdManager_get(w.map, parent_id).kind # "Entity"
    THEN [w EXCEPT !.panicked = TRUE]
    ELSE IF IdManager_get(w.map, parent_id).cell = child
    THEN [w EXCEPT !.diverged = TRUE]
    ELSE With(IdManager_get(w.map, parent_id).cell, LAMBDA current_parent :
         With(Entity_init_child(w, current_parent, child, entity_desc, depth),
              LAMBDA nw :
                cascade_same_depth(nw, nw.entities[current_parent].parent_id,
                                   child, entity_desc, depth)))

\* the while loop leaving after the first space master it comes to
RECURSIVE cascade_to_first_master(_, _, _, _, _)
cascade_to_first_master(w, parent_id, child, entity_desc, depth) ==
    IF parent_id = 0 THEN w
    ELSE IF IdManager_get(w.map, parent_id).kind # "Entity"
    THEN [w EXCEPT !.panicked = TRUE]
    ELSE IF IdManager_get(w.map, parent_id).cell = child
    THEN [w EXCEPT !.diverged = TRUE]
    ELSE With(IdManager_get(w.map, parent_id).cell, LAMBDA current_parent :
         With(Entity_init_child(w, current_parent, child, entity_desc, depth),
              LAMBDA nw :
             IF w.entities[current_parent].space_component.kind
                    \in {"GameSpaceMaster", "ScreenSpaceMaster"}
             THEN nw
             ELSE cascade_to_first_master(nw, nw.entities[current_parent].parent_id,
                                          child, entity_desc, depth + 1)))

\* the while loop started at the game space master when the parent is the root
RECURSIVE cascade_from_master(_, _, _, _, _)
cascade_from_master(w, parent_id, child, entity_desc, depth) ==
    IF parent_id = 0 /\ depth > 0 THEN w
    ELSE With(IF parent_id = 0 THEN w.entities[2].id ELSE parent_id, LAMBDA from :
         IF IdManager_get(w.map, from).kind # "Entity"
         THEN [w EXCEPT !.panicked = TRUE]
         ELSE IF IdManager_get(w.map, from).cell = child
         THEN [w EXCEPT !.diverged = TRUE]
         ELSE With(IdManager_get(w.map, from).cell, LAMBDA current_parent :
              With(Entity_init_child(w, current_parent, child, entity_desc, depth),
                   LAMBDA nw :
                  cascade_from_master(nw, nw.entities[current_parent].parent_id,
                                      child, entity_desc, depth + 1))))

\* the while loop of new_entity: every ancestor up to, excluding, the root.
\* When the ancestor reached is the new entity itself (it was registered
\* before its parent id was resolved, and is its own parent), parent_id never
\* becomes 0 and the loop goes round until depth += 1 overflows the i32.
RECURSIVE cascade(_, _, _, _, _)
cascade(w, parent_id, child, entity_desc, depth) ==
    IF parent_id = 0 THEN w
    ELSE IF IdManager_get(w.map, parent_id).kind # "Entity"
    THEN [w EXCEPT !.panicked = TRUE]
    ELSE IF IdManager_get(w.map, parent_id).cell = child
    THEN [w EXCEPT !.diverged = TRUE]
    ELSE With(IdManager_get(w.map, parent_id).cell, LAMBDA current_parent :
         With(Entity_init_child(w, current_parent, child, entity_desc, depth),
              LAMBDA nw :
             cascade(nw, nw.entities[current_parent].parent_id, child,
                     entity_desc, depth + 1)))

\* EntityRef::into_entity for u64: the two expect calls
into_entity_panics(m, id) == IdManager_get(m, id).kind # "Entity"

\* new_entity applying the descriptor position and running the entity's own
\* init before the ancestors are asked
new_entity_position_first(w, entity_desc, parent) ==
    With(parent, LAMBDA p_id :
    With(next_id(w), LAMBDA nid :
    With(Len(w.entities) + 1, LAMBDA cell :
    With([id |-> nid.id, parent_id |-> p_id, children |-> << >>,
          render_component |-> NoRender,
          space_component |-> NoSpaceComponent,
          components |-> entity_desc.components], LAMBDA entity :
    With([nid.w EXCEPT !.map = register_entity(@, nid.id, cell),
                       !.entities = Append(@, entity),
                       !.life_log = @ \o << [step |-> "register_entity"],
                                            [step |-> "push"] >>], LAMBDA w1 :
    IF into_entity_panics(w1.map, parent) THEN [w1 EXCEPT !.panicked = TRUE]
    ELSE
    With(IdManager_get(w1.map, parent).cell, LAMBDA parent_entity :
    IF parent_entity \in w1.borrowed THEN [w1 EXCEPT !.panicked = TRUE]
    ELSE
    With([w1 EXCEPT !.entities = add_child(@, parent_entity, cell),
                    !.life_log = Append(@, [step |-> "add_child"])],
         LAMBDA w2 :
    With(Entity_init(w2, cell), LAMBDA w3 :
    With(<<entity_desc.position[1], entity_desc.position[2],
           entity_desc.position[3]>>, LAMBDA pos :
    With(translate(EngineOf(w3), w3.entities[cell].space_component, pos),
         LAMBDA st :
    With([w3 EXCEPT !.ccells = st.ccells,
                    !.life_log = Append(@, [step |-> "translate",
                         delegate |-> w3.entities[cell].space_component])],
         LAMBDA w4 :
        cascade(w4, p_id, cell, entity_desc, 0))))))))))))

\* EntityManager::new_entity with parent given by id; a parent that does not
\* resolve to an entity panics after the entity was registered and pushed
new_entity(w, entity_desc, parent) ==
    With(parent, LAMBDA p_id :
    With(next_id(w), LAMBDA nid :
    With(Len(w.entities) + 1, LAMBDA cell :
    With([id |-> nid.id, parent_id |-> p_id, children |-> << >>,
          render_component |-> NoRender,
          space_component |-> NoSpaceComponent,
          components |-> entity_desc.components], LAMBDA entity :
    With([nid.w EXCEPT !.map = register_entity(@, nid.id, cell),
                       !.entities = Append(@, entity),
                       !.life_log = @ \o << [step |-> "register_entity"],
                                            [step |-> "push"] >>], LAMBDA w1 :
    IF into_entity_panics(w1.map, parent) THEN [w1 EXCEPT !.panicked = TRUE]
    ELSE
    With(IdManager_get(w1.map, parent).cell, LAMBDA parent_entity :
    IF parent_entity \in w1.borrowed THEN [w1 EXCEPT !.panicked = TRUE]
    ELSE
    With([w1 EXCEPT !.entities = add_child(@, parent_entity, cell),
                    !.life_log = Append(@, [step |-> "add_child"])],
         LAMBDA w2 :
    With(cascade(w2, p_id, cell, entity_desc, 0), LAMBDA w3 :
    IF w3.panicked \/ w3.diverged THEN w3
    ELSE
    With(Entity_init(w3, cell), LAMBDA w4 :
    With(<<entity_desc.position[1], entity_desc.position[2],
           entity_desc.position[3]>>, LAMBDA pos :
    With(translate(EngineOf(w4), w4.entities[cell].space_component, pos),
         LAMBDA st :
        [w4 EXCEPT !.ccells = st.ccells,
                   !.life_log = Append(@, [step |-> "translate",
                        delegate |-> w4.entities[cell].space_component]),
                   !.notice_log = @ \o wrong_size(w4.bcells,
                        w4.entities[cell].space_component, "translate", pos)])))))))))))

\* new_entity with a descriptor that carries a space-delegate override and
\* NoRender, as the space masters are made: the entity keeps the
\* delegates of its descriptor
\* the overrides put on the entity when it is constructed, so that an ancestor
\* that assigns delegates replaces them
new_entity_with_space_cascaded(w, entity_desc, parent, space_component) ==
    With(new_entity(w, entity_desc, parent), LAMBDA made :
        IF made.panicked \/ made.diverged THEN made
        ELSE IF made.entities[Len(made.entities)].space_component # NoSpaceComponent
        THEN made
        ELSE [made EXCEPT
                !.entities[Len(made.entities)].space_component = space_component,
                !.entities[Len(made.entities)].render_component = NoRender])

new_entity_with_space(w, entity_desc, parent, space_component) ==
    With(new_entity(w, entity_desc, parent), LAMBDA made :
        IF made.panicked \/ made.diverged THEN made
        ELSE [made EXCEPT
                !.entities[Len(made.entities)].space_component = space_component,
                !.entities[Len(made.entities)].render_component = NoRender])

\* how a handler ends: it returns; or, having entered the loop whose counter
\* overflows, it panics on the overflow (debug build) or wraps and never
\* returns (release build)
Outcomes(w) ==
    IF w.diverged THEN {[w EXCEPT !.panicked = TRUE], [w EXCEPT !.hung = TRUE]}
    ELSE {w}

\* Entity::render: the delegate of the entity, then the children in list order
RECURSIVE Entity_render(_, _, _)
RECURSIVE render_children(_, _, _)
Entity_render(ents, bcells, cell) ==
    RenderComponent_render(bcells, ents[cell].render_component)
    \o render_children(ents, bcells, ents[cell].children)
render_children(ents, bcells, children) ==
    IF children = << >> THEN << >>
    ELSE Entity_render(ents, bcells, Head(children))
         \o render_children(ents, bcells, Tail(children))

\* EntityManager::render
\* render asking the entities in the order of the flat list
RECURSIVE EntityManager_render_flat(_, _)
EntityManager_render_flat(ents, bcells) ==
    IF ents = << >> THEN << >>
    ELSE EntityManager_render_flat(SubSeq(ents, 1, Len(ents) - 1), bcells)
         \o RenderComponent_render(bcells, ents[Len(ents)].render_component)

EntityManager_render(ents, bcells) ==
    IF Len(ents) >= 1 THEN Entity_render(ents, bcells, 1) ELSE << >>

\* Entity::input: the fold of the responses of the entity's own components
RECURSIVE input_children(_, _, _)

\* Entity::input handing the event on to the children as well
Entity_input_with_children(w, cell, event) ==
    With([w EXCEPT !.component_log =
              @ \o component_calls(w.entities[cell], "input"),
                   !.input_log = Append(@, [kind |-> "input",
                        id |-> w.entities[cell].id, event |-> event])], LAMBDA own :
        [input_children(own, own.entities[cell].children, event)
            EXCEPT !.response =
                [of |-> "input", entity |-> w.entities[cell].id, event |-> event,
                 value |-> fold_with("No",
                     [i \in DOMAIN w.entities[cell].components |->
                         w.entities[cell].components[i].answer])]])

input_children(w, children, event) ==
    IF children = << >> THEN w
    ELSE input_children(Entity_input_with_children(w, Head(children), event),
                        Tail(children), event)

\* Entity::input handing the event to the space delegate after the components
Entity_input_with_space(w, cell, event) ==
    With(SpaceComponent_input(EngineOf(w), w.entities[cell].space_component, event),
         LAMBDA spaced :
        [w EXCEPT !.component_log = @ \o component_calls(w.entities[cell], "input"),
                  !.input_log = Append(@, [kind |-> "input", id |-> w.entities[cell].id,
                                           event |-> event]),
                  !.ccells = spaced.st.ccells,
                  !.response =
                    [of |-> "input", entity |-> w.entities[cell].id, event |-> event,
                     value |-> Response_with(fold_with("No",
                         [i \in DOMAIN w.entities[cell].components |->
                             w.entities[cell].components[i].answer]),
                         spaced.response)]])

\* Entity::input: the fold of the answers of the entity's components
Entity_input(w, cell, event) ==
    [w EXCEPT !.component_log = @ \o component_calls(w.entities[cell], "input"),
              !.input_log = Append(@, [kind |-> "input", id |-> w.entities[cell].id,
                                       event |-> event]),
              !.response =
                [of |-> "input", entity |-> w.entities[cell].id, event |-> event,
                 value |-> fold_with("No",
                     [i \in DOMAIN w.entities[cell].components |->
                         w.entities[cell].components[i].answer])]]

----
\* event.rs

\* SystemManager::input: the fold of the answers of the systems, in list order
SystemManager_input(answers) == fold_with("No", answers)

\* the for loop delivering to each distinct id once
RECURSIVE deliver_once(_, _, _, _)
deliver_once(m, ids, item, slot) ==
    IF ids = << >> THEN << >>
    ELSE (IF IdManager_get(m, ids[Len(ids)]).kind = "None"
             \/ \E i \in 1..(Len(ids) - 1) : ids[i] = ids[Len(ids)]
          THEN << >>
          ELSE << [kind |-> "input", id |-> ids[Len(ids)], event |-> item.event,
                   destination |-> item.destination, slot |-> slot] >>)
         \o deliver_once(m, SubSeq(ids, 1, Len(ids) - 1), item, slot)

\* the for loop giving up at the first id that does not resolve
RECURSIVE deliver_until_unresolved(_, _, _, _)
deliver_until_unresolved(m, ids, item, slot) ==
    IF ids = << >> THEN << >>
    ELSE IF IdManager_get(m, Head(ids)).kind = "None"
    THEN << [kind |-> "id_not_found", id |-> Head(ids), slot |-> slot] >>
    ELSE << [kind |-> "input", id |-> Head(ids), event |-> item.event,
             destination |-> item.destination, slot |-> slot] >>
         \o deliver_until_unresolved(m, Tail(ids), item, slot)

\* the for loop of process_events over the subscribers of one destination,
\* for the (destination, event) popped from this slot of the queue: the input
\* calls made and
\* the "Thing with id ... not found" lines printed, in order
RECURSIVE deliver(_, _, _, _)
deliver(m, ids, item, slot) ==
    IF ids = << >> THEN << >>
    ELSE (IF IdManager_get(m, Head(ids)).kind = "None"
          THEN << [kind |-> "id_not_found", id |-> Head(ids), slot |-> slot] >>
          ELSE << [kind |-> "input", id |-> Head(ids), event |-> item.event,
                   destination |-> item.destination, slot |-> slot] >>)
         \o deliver(m, Tail(ids), item, slot)

\* the body of the while loop for one popped item
dispatch(item, slot, dests, m) ==
    IF item.destination \notin DOMAIN dests
    THEN << [kind |-> "destination_not_found", destination |-> item.destination,
             slot |-> slot] >>
    ELSE deliver(m, dests[item.destination], item, slot)

\* the loop leaving at the first destination that is not found
RECURSIVE process_events_break(_, _, _)
process_events_break(queue, dests, m) ==
    IF queue = << >> THEN [queue |-> << >>, trace |-> << >>]
    ELSE IF queue[Len(queue)].destination \notin DOMAIN dests
    THEN [queue |-> SubSeq(queue, 1, Len(queue) - 1),
          trace |-> dispatch(queue[Len(queue)], Len(queue), dests, m)]
    ELSE With(process_events_break(SubSeq(queue, 1, Len(queue) - 1), dests, m),
              LAMBDA later :
                [queue |-> later.queue,
                 trace |-> dispatch(queue[Len(queue)], Len(queue), dests, m)
                           \o later.trace])

\* the loop taking the oldest event first
RECURSIVE process_events_fifo(_, _, _)
process_events_fifo(queue, dests, m) ==
    IF queue = << >> THEN [queue |-> << >>, trace |-> << >>]
    ELSE With(process_events_fifo(SubSeq(queue, 1, Len(queue) - 1), dests, m),
              LAMBDA earlier :
                [queue |-> earlier.queue,
                 trace |-> earlier.trace
                           \o dispatch(queue[Len(queue)], Len(queue), dests, m)])

\* one pop in place of the loop
process_events_one_pop(queue, dests, m) ==
    IF queue = << >> THEN [queue |-> << >>, trace |-> << >>]
    ELSE [queue |-> SubSeq(queue, 1, Len(queue) - 1),
          trace |-> dispatch(queue[Len(queue)], Len(queue), dests, m)]

\* the while loop of process_events: queue.pop() takes the last element until
\* none is left; the result is the queue it leaves and the trace of the input
\* calls made and the lines printed
RECURSIVE process_events(_, _, _)
process_events(queue, dests, m) ==
    IF queue = << >> THEN [queue |-> << >>, trace |-> << >>]
    ELSE With(process_events(SubSeq(queue, 1, Len(queue) - 1), dests, m),
              LAMBDA later :
                [queue |-> later.queue,
                 trace |-> dispatch(queue[Len(queue)], Len(queue), dests, m)
                           \o later.trace])

----
\* lib.rs: GlobalContext and the frame

\* the state a handler works on: the managers of GlobalContext and what the
\* handler has issued so far
Global == [entities |-> entities, map |-> map, hasher |-> hasher,
           im |-> instance_manager, ccells |-> change_cells,
           bcells |-> buffer_id_cells, event_queue |-> event_queue,
           destinations |-> destinations, frame_log |-> << >>,
           write_log |-> << >>, last_tick |-> "none", input_log |-> << >>,
           render_commands |-> << >>, notice_log |-> << >>, init_log |-> << >>,
           resolved |-> [kind |-> "NotCalled"],
           space_call |-> [method |-> "none"], component_log |-> << >>,
           life_log |-> << >>, response |-> [of |-> "none"],
           borrowed |-> {}, manager_borrowed |-> FALSE,
           panicked |-> FALSE,
           diverged |-> FALSE, hung |-> FALSE]

\* the handler returns: its effects become the state
Commit(g) ==
    /\ entities' = g.entities
    /\ map' = g.map
    /\ hasher' = g.hasher
    /\ instance_manager' = g.im
    /\ change_cells' = g.ccells
    /\ buffer_id_cells' = g.bcells
    /\ event_queue' = g.event_queue
    /\ destinations' = g.destinations
    /\ frame_log' = g.frame_log
    /\ write_log' = g.write_log
    /\ last_tick' = g.last_tick
    /\ input_log' = g.input_log
    /\ render_commands' = g.render_commands
    /\ notice_log' = g.notice_log
    /\ init_log' = g.init_log
    /\ resolved' = g.resolved
    /\ space_call' = g.space_call
    /\ component_log' = g.component_log
    /\ life_log' = g.life_log
    /\ response' = g.response
    /\ aborted' = g.panicked
    /\ hung' = g.hung

\* ComponentObjects holding a clone of the dispatcher: the input of the first
\* calls send_event on it, the input of the second register_destination; the
\* input of the third calls nothing
SendingObject == "sender"
RegisteringObject == "registrar"
QuietObject == "quiet"

\* the input of the object under this id calls borrow_mut on a cell of the
\* dispatcher: event_queue in send_event, destinations in register_destination
borrows_dispatcher(m, id) ==
    /\ IdManager_get(m, id).kind = "Component"
    /\ IdManager_get(m, id).component \in {SendingObject, RegisteringObject}

\* the steps of the trace of a drain that call such an input
reentries(m, trace) ==
    {k \in DOMAIN trace : trace[k].kind = "input" /\ borrows_dispatcher(m, trace[k].id)}

\* thing.input(event.clone()) for the input calls of a drain, in order: on an
\* entity it is Entity::input, whose Response the loop drops
RECURSIVE call_inputs(_, _)
call_inputs(w, trace) ==
    IF trace = << >> THEN w
    ELSE IF Head(trace).kind = "input"
            /\ IdManager_get(w.map, Head(trace).id).kind = "Entity"
    THEN With(Entity_input(w, IdManager_get(w.map, Head(trace).id).cell,
                           Head(trace).event), LAMBDA called :
            call_inputs([called EXCEPT !.input_log = w.input_log,
                                       !.response = w.response], Tail(trace)))
    ELSE call_inputs(w, Tail(trace))

\* do_tick: self.event_dispatcher.process_events(). The loop runs with
\* event_queue and destinations held by borrow_mut, so the first input that
\* calls borrow_mut on either panics: the items popped so far are off the
\* queue and nothing is pushed
EventDispatcher_process_events(g) ==
    With(process_events(g.event_queue, g.destinations, g.map), LAMBDA done :
        IF reentries(g.map, done.trace) = {}
        THEN [call_inputs(g, done.trace) EXCEPT
                !.input_log = @ \o SelectSeq(done.trace, LAMBDA t : t.kind = "input"),
                !.notice_log = @ \o SelectSeq(done.trace, LAMBDA t : t.kind # "input"),
                !.event_queue = done.queue,
                !.frame_log = Append(@, "process_events")]
        ELSE With(CHOOSE k \in reentries(g.map, done.trace) :
                      \A j \in reentries(g.map, done.trace) : k <= j, LAMBDA first :
             [call_inputs(g, SubSeq(done.trace, 1, first)) EXCEPT
                !.input_log = @ \o SelectSeq(SubSeq(done.trace, 1, first),
                                             LAMBDA t : t.kind = "input"),
                !.notice_log = @ \o SelectSeq(SubSeq(done.trace, 1, first),
                                              LAMBDA t : t.kind # "input"),
                !.event_queue = SubSeq(g.event_queue, 1, done.trace[first].slot - 1),
                !.frame_log = Append(@, "process_events"),
                !.panicked = TRUE]))

\* EntityManager::input_root: the event handed to the root entity; nothing in
\* the program calls it
input_root(w, event) == Entity_input(w, 1, event)

\* GlobalContext::input: the event goes to the systems, whose answer is dropped
GlobalContext_input(g, event, answers) ==
    [g EXCEPT !.response = [of |-> "context_input", event |-> event,
                            systems |-> SystemManager_input(answers)]]

\* PlayerControllerSystem::new, which takes an id, then
\* SystemManager::new_system, which registers the system under the id and
\* pushes it on systems; the model keeps the systems by their registry entries
new_system(w, player_entity) ==
    With(next_id(w), LAMBDA nid :
        [nid.w EXCEPT !.map =
            [k \in (DOMAIN @) \cup {nid.id} |->
                IF k = nid.id
                THEN [kind |-> "System", system |-> [player_entity |-> player_entity]]
                ELSE @[k]]])

\* the ids of the systems installed
SystemIds(m) == {id \in DOMAIN m : m[id].kind = "System"}

\* what Camera::get_pos returns when the controller ticks
CameraPos == <<0, 1, 0>>

\* PlayerControllerSystem::tick: set_pos on the space delegate of the player
PlayerControllerSystem_tick(w, system) ==
    With(set_pos(EngineOf(w), w.entities[system.player_entity].space_component,
                 CameraPos), LAMBDA st :
        [w EXCEPT !.ccells = st.ccells])

\* the loop of SystemManager::tick over the systems; every system sets the
\* same position, so the order of the visits does not show
RECURSIVE tick_systems(_, _)
tick_systems(w, ids) ==
    IF ids = {} THEN w
    ELSE With(CHOOSE id \in ids : \A other \in ids : id <= other, LAMBDA id :
            tick_systems(PlayerControllerSystem_tick(w, w.map[id].system),
                         ids \ {id}))

\* do_tick: self.system_manager.borrow_mut().tick(self)
SystemManager_tick(g) ==
    tick_systems([g EXCEPT !.frame_log = Append(@, "system_tick")],
                 SystemIds(g.map))

\* context.entity_manager.borrow_mut().new_entity(context, desc, parent): the
\* only way to new_entity; borrow_mut on a RefCell that is borrowed panics
GlobalContext_new_entity(w, entity_desc, parent) ==
    IF w.manager_borrowed THEN [w EXCEPT !.panicked = TRUE]
    ELSE new_entity(w, entity_desc, parent)

\* the descriptor a ticking component makes an entity from
SpawnDesc == [position |-> <<1, 2, 0>>, rotation |-> <<1, 0, 0, 0>>,
              components |-> << >>]

\* what a ticking component sends through its clone of the dispatcher
TickSent == [destination |-> "a", event |-> "tick"]

\* Component::tick: the object's tick, which may call back into the engine
Component_tick(w, cell, i) ==
    With([w EXCEPT !.component_log =
              Append(@, [call |-> "tick", entity |-> w.entities[cell].id,
                         component |-> w.entities[cell].components[i].id])],
         LAMBDA logged :
        IF logged.entities[cell].components[i].on_tick = "new_entity"
        THEN GlobalContext_new_entity(logged, SpawnDesc, logged.entities[cell].id)
        ELSE IF logged.entities[cell].components[i].on_tick = "send_event"
        THEN [logged EXCEPT !.event_queue = Append(@, TickSent)]
        ELSE logged)

RECURSIVE Entity_tick(_, _), tick_components(_, _, _), tick_children(_, _)

\* Entity::tick visiting the children before the entity's own components
Entity_tick_children_first(w, cell) ==
    IF w.panicked THEN w
    ELSE With([w EXCEPT !.borrowed = @ \cup {cell}], LAMBDA held :
         With(tick_children(held, held.entities[cell].children), LAMBDA w1 :
         With(tick_components(w1, cell, 1), LAMBDA w2 :
             [w2 EXCEPT !.borrowed = @ \ {cell}])))

\* Entity::tick on a cell the caller holds by borrow_mut
Entity_tick(w, cell) ==
    IF w.panicked THEN w
    ELSE With([w EXCEPT !.borrowed = @ \cup {cell}], LAMBDA held :
         With(tick_components(held, cell, 1), LAMBDA w1 :
         With(tick_children(w1, w1.entities[cell].children), LAMBDA w2 :
             [w2 EXCEPT !.borrowed = @ \ {cell}])))

\* for component in self.components.iter_mut() { component.tick() }
tick_components(w, cell, i) ==
    IF w.panicked \/ i > Len(w.entities[cell].components) THEN w
    ELSE tick_components(Component_tick(w, cell, i), cell, i + 1)

\* for child_cell in self.children.iter() { child_cell.borrow_mut().tick() }
tick_children(w, children) ==
    IF w.panicked \/ children = << >> THEN w
    ELSE tick_children(Entity_tick(w, Head(children)), Tail(children))

\* do_tick: self.entity_manager.borrow_mut().tick(), which ticks the root
EntityManager_tick(g) ==
    With([g EXCEPT !.frame_log = Append(@, "entity_tick"),
                   !.manager_borrowed = TRUE], LAMBDA held :
    With(IF Len(held.entities) >= 1 THEN Entity_tick(held, 1) ELSE held,
         LAMBDA ticked :
        [ticked EXCEPT !.manager_borrowed = FALSE]))

\* do_tick: self.instance_manager.borrow_mut().tick(&self)
GlobalContext_instance_tick(g) ==
    With(InstanceManager_tick(EngineOf(g)), LAMBDA r :
        [g EXCEPT !.im = r.im, !.ccells = r.ccells, !.bcells = r.bcells,
                  !.write_log = @ \o r.writes, !.last_tick = r.path,
                  !.frame_log = Append(@, "instance_tick")])

\* do_tick with the instance engine ticked before the entities
do_tick_instance_first(g) ==
    With(EventDispatcher_process_events(g), LAMBDA g1 :
    With(SystemManager_tick(g1), LAMBDA g2 :
    With(GlobalContext_instance_tick(g2), LAMBDA g3 :
        EntityManager_tick(g3))))

\* do_tick draining the event queue after the ticks
do_tick_drain_last(g) ==
    With(SystemManager_tick(g), LAMBDA g2 :
    With(EntityManager_tick(g2), LAMBDA g3 :
        IF g3.panicked THEN g3 ELSE
    With(EventDispatcher_process_events(g3), LAMBDA g1 :
        IF g1.panicked THEN g1 ELSE GlobalContext_instance_tick(g1))))

\* GlobalContext::do_tick
do_tick(g) ==
    With(EventDispatcher_process_events(g), LAMBDA g1 :
        IF g1.panicked THEN g1 ELSE
    With(SystemManager_tick(g1), LAMBDA g2 :
    With(EntityManager_tick(g2), LAMBDA g3 :
        IF g3.panicked THEN g3 ELSE GlobalContext_instance_tick(g3))))

\* GlobalContext::render: the traversal of the entity graph
GlobalContext_render(g) ==
    [g EXCEPT !.render_commands = @ \o EntityManager_render(g.entities, g.bcells),
              !.frame_log = Append(@, "render")]

\* the RedrawRequested arm of run(): do_tick, then render
redraw(g) ==
    With(do_tick(g), LAMBDA ticked :
        IF ticked.panicked THEN ticked ELSE GlobalContext_render(ticked))

\* the handles issued so far (register_instance returns get_ref of the instance)
Handles == {get_ref(instance_manager.instances[i]) :
                i \in 1..Len(instance_manager.instances)}

\* ids that resolve to an entity
EntityIds == {id \in DOMAIN map : map[id].kind = "Entity"}

EntityDesc == [position : PosDomain, rotation : DescRotDomain, components : {<< >>}]

\* GlobalContext::new with EntityManager::new: the root and the game space master
Init ==
    /\ in_loop = FALSE
    /\ entities = <<[make_root EXCEPT !.children = <<2>>], make_space_master(IdOf(0))>>
    /\ map = register_entity(register_entity(<< >>, 0, 1), IdOf(0), 2)
    /\ hasher = 1
    /\ instance_manager = InstanceManager_new
    /\ change_cells = << >>
    /\ buffer_id_cells = << >>
    /\ event_queue = << >>
    /\ destinations = << >>
    /\ frame_log = << >>
    /\ write_log = << >>
    /\ last_tick = "none"
    /\ input_log = << >>
    /\ render_commands = << >>
    /\ notice_log = << >>
    /\ init_log = << >>
    /\ resolved = [kind |-> "NotCalled"]
    /\ space_call = [method |-> "none"]
    /\ component_log = << >>
    /\ life_log = << >>
    /\ response = [of |-> "none"]
    /\ aborted = FALSE
    /\ hung = FALSE
    /\ hist = [ticked |-> FALSE, fresh |-> {}, env |-> 0, env_pushed |-> {},
               inst_desc |-> << >>, ent_desc |-> <<"none", "none">>,
               drained |-> << >>, synced |-> {},
               registered |-> (0 :> [kind |-> "Entity", cell |-> 1])
                              @@ (IdOf(0) :> [kind |-> "Entity", cell |-> 2]),
               replaced |-> {}, parent |-> 0, override |-> [kind |-> "none"]]

\* the history of the registrations: the object last registered under each id
Registered(reg, id, object) ==
    [k \in (DOMAIN reg) \cup {id} |-> IF k = id THEN object ELSE reg[k]]

\* the history of the instances registered by a step
HistRegistered(h, nim) ==
    LET old == Len(h.inst_desc)
        new == Len(nim.instances)
    IN  [h EXCEPT
           !.fresh = @ \cup ((old + 1)..new),
           !.drained = << >>, !.synced = {},
           !.inst_desc = [i \in 1..new |->
                             IF i <= old THEN h.inst_desc[i]
                             ELSE [instance_type |-> nim.instances[i].instance_type,
                                   position |-> nim.instances[i].position,
                                   rotation |-> nim.instances[i].rotation]]]

\* the history of an instance tick: the instances registered since the tick
\* before it, and what each instance's queue held when the tick started, for
\* the instances a partial-write tick drains
HistTicked(h) ==
    [h EXCEPT !.ticked = TRUE, !.fresh = {}, !.synced = h.fresh,
              !.drained = IF instance_manager.needs_buffer_remake THEN << >>
                          ELSE [i \in 1..Len(instance_manager.instances) |->
                                   change_cells[instance_manager.instances[i].change_buffer]]]

\* EntityManager::new_entity(entity_desc, parent, context)
NewEntity(parent, entity_desc) ==
    /\ ~aborted /\ ~hung
    /\ hist.env < MaxEnv
    /\ \E g \in Outcomes(new_entity(Global, entity_desc, parent)) :
           /\ Commit(g)
           /\ hist' = [HistRegistered(hist, g.im)
                       EXCEPT !.ent_desc = Append(@, entity_desc), !.env = @ + 1,
                              !.registered = Registered(@, next_id(Global).id,
                                    [kind |-> "Entity", cell |-> Len(entities) + 1]),
                              !.parent = parent,
                              !.override = [kind |-> "none"]]
    /\ UNCHANGED in_loop

\* InstanceManager::register_instance(instance_desc) called on the engine directly
RegisterInstance(instance_desc) ==
    /\ ~aborted /\ ~hung
    /\ hist.env < MaxEnv
    /\ \E r \in {register_instance(EngineOf(Global), instance_desc)} :
           /\ Commit([Global EXCEPT !.im = r.im, !.ccells = r.ccells,
                                    !.bcells = r.bcells])
           /\ hist' = [HistRegistered(hist, r.im) EXCEPT !.env = @ + 1]
    /\ UNCHANGED in_loop

\* InstanceRef::set_pos / add_pos / set_rot / add_rot through an issued handle
HandlePush(ref, change) ==
    /\ ~aborted /\ ~hung
    /\ hist.env < MaxEnv
    /\ \E r \in {InstanceRef_push(EngineOf(Global), ref, change)} :
           Commit([Global EXCEPT !.im = r.im, !.ccells = r.ccells,
                                 !.bcells = r.bcells])
    /\ hist' = [hist EXCEPT !.env = @ + 1, !.drained = << >>, !.synced = {},
                            !.env_pushed = @ \cup {ref.changes_buffer}]
    /\ UNCHANGED in_loop

\* new_entity for a screen space master under the root
NewScreenMaster(entity_desc) ==
    /\ ~aborted /\ ~hung
    /\ hist.env < MaxEnv
    /\ \E g \in {new_entity_with_space(Global, entity_desc, 0, ScreenSpaceMaster)} :
           /\ Commit(g)
           /\ hist' = [HistRegistered(hist, g.im)
                       EXCEPT !.ent_desc = Append(@, entity_desc), !.env = @ + 1,
                              !.registered = Registered(@, next_id(Global).id,
                                    [kind |-> "Entity", cell |-> Len(entities) + 1]),
                              !.parent = 0, !.override = ScreenSpaceMaster]
    /\ UNCHANGED in_loop

\* entity.space_component().translate / rotate / set_pos / set_rot (vector)
SpaceCall(cell, method, vector) ==
    /\ ~aborted /\ ~hung
    /\ hist.env < MaxEnv
    /\ \E st \in {SpaceComponent_call(EngineOf(Global),
                        entities[cell].space_component, method, vector)} :
           /\ Commit([Global EXCEPT
                        !.ccells = st.ccells,
                        !.notice_log = wrong_size(buffer_id_cells,
                              entities[cell].space_component, method, vector),
                        !.space_call = [method |-> method, cell |-> cell,
                                        vector |-> vector]])
           /\ hist' = [hist EXCEPT
                        !.env = @ + 1, !.drained = << >>, !.synced = {},
                        !.env_pushed =
                            IF st.ccells = change_cells THEN @
                            ELSE @ \cup {entities[cell].space_component
                                             .instance.changes_buffer}]
    /\ UNCHANGED in_loop

\* Response::with called on two responses
ResponseWith(self, other) ==
    /\ ~aborted /\ ~hung
    /\ Commit([Global EXCEPT !.response =
                    [of |-> "with", args |-> <<self, other>>,
                     value |-> Response_with(self, other)]])
    /\ UNCHANGED <<in_loop, hist>>

\* SystemManager::input with systems that give these answers
SystemInput(answers) ==
    /\ ~aborted /\ ~hung
    /\ Commit([Global EXCEPT !.response =
                    [of |-> "fold", args |-> answers,
                     value |-> SystemManager_input(answers)]])
    /\ UNCHANGED <<in_loop, hist>>

\* IdManager::register_component
RegisterComponent(id, component) ==
    /\ ~aborted /\ ~hung
    /\ hist.env < MaxEnv
    /\ Commit([Global EXCEPT !.map = register_component(@, id, component)])
    /\ hist' = [hist EXCEPT
                  !.env = @ + 1, !.drained = << >>, !.synced = {},
                  !.registered = Registered(@, id,
                        [kind |-> "Component", component |-> component]),
                  !.replaced = IF id \in DOMAIN hist.registered
                               THEN @ \cup {[id |-> id, old |-> hist.registered[id]]}
                               ELSE @]
    /\ UNCHANGED in_loop

\* IdManager::get called by the environment
Resolve(id) ==
    /\ ~aborted /\ ~hung
    /\ Commit([Global EXCEPT !.resolved = [kind |-> "Called", id |-> id,
                                           got |-> IdManager_get(map, id)]])
    /\ UNCHANGED <<in_loop, hist>>

\* EventDispatcher::send_event
SendEvent(destination, event) ==
    /\ ~aborted /\ ~hung
    /\ hist.env < MaxEnv
    /\ Commit([Global EXCEPT !.event_queue =
                    Append(@, [destination |-> destination, event |-> event])])
    /\ hist' = [hist EXCEPT !.env = @ + 1, !.drained = << >>, !.synced = {}]
    /\ UNCHANGED in_loop

\* EventDispatcher::register_destination
RegisterDestination(destination, id) ==
    /\ ~aborted /\ ~hung
    /\ hist.env < MaxEnv
    /\ Commit([Global EXCEPT !.destinations =
                    [d \in (DOMAIN destinations) \cup {destination} |->
                        IF d # destination THEN destinations[d]
                        ELSE IF d \in DOMAIN destinations
                             THEN Append(destinations[d], id) ELSE <<id>>]])
    /\ hist' = [hist EXCEPT !.env = @ + 1, !.drained = << >>, !.synced = {}]
    /\ UNCHANGED in_loop

\* run(): the do_tick after test_init, before the event loop starts
StartupTick ==
    /\ ~aborted /\ ~hung
    /\ ~in_loop
    /\ in_loop' = TRUE
    /\ \E g \in {do_tick(Global)} : Commit(g)
    /\ hist' = HistTicked(hist)

\* run(): Event::RedrawRequested
Redraw ==
    /\ ~aborted /\ ~hung
    /\ in_loop
    /\ \E g \in {redraw(Global)} : Commit(g)
    /\ hist' = HistTicked(hist)
    /\ UNCHANGED in_loop

\* the entity graph and the instance engine under the frame loop
Next ==
    \/ \E parent \in EntityIds : \E d \in EntityDesc : NewEntity(parent, d)
    \/ \E d \in InstanceDesc : RegisterInstance(d)
    \/ \E ref \in Handles : \E c \in InstanceChange : HandlePush(ref, c)
    \/ StartupTick
    \/ Redraw

Spec == Init /\ [][Next]_vars

\* an id no object was ever registered under
UnknownId == 99

\* events the environment sends
EventDomain == {"e1", "e2"}

\* destination names the environment registers subscribers under
RegisteredDestDomain == {"a", "b"}

\* the event bus with several destinations, repeated and unknown subscribers
NextEvents ==
    \/ \E d \in RegisteredDestDomain \cup {"x"} : \E e \in EventDomain :
          SendEvent(d, e)
    \/ \E d \in RegisteredDestDomain : \E id \in EntityIds \cup {UnknownId} :
          RegisterDestination(d, id)
    \/ StartupTick
    \/ Redraw

SpecEvents == Init /\ [][NextEvents]_vars

\* the lists of answers a fold runs over
AnswerLists == UNION {[1..n -> Response] : n \in 0..MaxFold}

\* the combination of responses, on its own
NextResponse ==
    \/ \E a \in Response : \E b \in Response : ResponseWith(a, b)
    \/ \E answers \in AnswerLists : SystemInput(answers)

SpecResponse == Init /\ [][NextResponse]_vars

\* ids components are registered under
ComponentIds == {20}

\* the components registered
ComponentDomain == {"c1", "c2"}

\* parent ids handed to new_entity: the entities, an id never registered, the
\* id of a component, the id the call itself is about to issue
ParentDomain ==
    EntityIds \cup {UnknownId} \cup ComponentIds \cup {next_id(Global).id}

\* the identity registry and the entity graph; descriptors do not matter here
NextGraph ==
    \/ \E parent \in ParentDomain : \E d \in EntityDesc : NewEntity(parent, d)
    \/ \E id \in ComponentIds : \E c \in ComponentDomain : RegisterComponent(id, c)
    \/ \E id \in EntityIds \cup {UnknownId} \cup ComponentIds : Resolve(id)

SpecGraph == Init /\ [][NextGraph]_vars

\* vectors handed to the space delegates: of length 2, 3 and 4
VecDomain == {<<1, 0>>, <<1, 0, 0>>, <<1, 0, 0, 0>>}

SpaceMethods == {"translate", "rotate", "set_pos", "set_rot"}

\* ids of the space masters
MasterIds == {id \in EntityIds :
                 entities[map[id].cell].space_component.kind
                     \in {"GameSpaceMaster", "ScreenSpaceMaster"}}

\* the entities a space master gave an instance to
PlacedCells == {c \in 1..Len(entities) :
                   entities[c].space_component.kind
                       \in {"GameSpaceComponent", "ScreenSpaceComponent"}}

\* the space delegates of the entities under the frame loop
NextSpace ==
    \/ \E parent \in MasterIds : \E d \in EntityDesc : NewEntity(parent, d)
    \/ \E d \in EntityDesc : NewScreenMaster(d)
    \/ \E cell \in PlacedCells : \E method \in SpaceMethods :
          \E vector \in VecDomain : SpaceCall(cell, method, vector)
    \/ StartupTick
    \/ Redraw

SpecSpace == Init /\ [][NextSpace]_vars

\* the entity graph and the event bus under the frame loop
NextBus ==
    \/ \E parent \in EntityIds : \E d \in EntityDesc : NewEntity(parent, d)
    \/ \E d \in DestDomain : SendEvent(d, "ev")
    \/ \E id \in EntityIds : RegisterDestination("a", id)
    \/ StartupTick
    \/ Redraw

SpecBus == Init /\ [][NextBus]_vars

----
\* Vocabulary of the properties.

Range(s) == {s[i] : i \in DOMAIN s}

Instances == instance_manager.instances

\* the queue cell of an instance, as the handles see it
QueueOf(inst) == change_cells[inst.change_buffer]

BufferOf(im, instance_type) ==
    IF instance_type = "Model" THEN im.instance_3d_buffer ELSE im.instance_2d_buffer

\* the packed record of the GPU buffer at the slot of an instance
RecordOf(im, bcells, inst) ==
    LET buf == BufferOf(im, inst.instance_type)
        slot == bcells[inst.buffer_id] + 1
    IN  IF slot <= Len(buf) THEN buf[slot] ELSE [kind |-> "missing"]

\* the translation column of a packed 3-D record
Translation(raw) == <<raw.model[4][1], raw.model[4][2], raw.model[4][3]>>

\* ---------------------------------------------------------------------
\* The entity graph with components: entities made with components in the
\* descriptor, ticked, rendered and given input events.
\* ---------------------------------------------------------------------

\* the number of entities the graph is grown to
MaxEntities == 5

\* ---------------------------------------------------------------------
\* transform on the space delegates of entities placed by the game space
\* master.
\* ---------------------------------------------------------------------

\* vectors of every length from 2 to 5
TransformVecs == {<<1, 0>>, <<1, 0, 0>>, <<1, 0, 0, 0>>, <<1, 0, 0, 0, 0>>}

Transform(cell, vector) ==
    /\ ~aborted /\ ~hung
    /\ hist.env < MaxEnv
    /\ \E g \in {transform(Global, entities[cell].space_component, vector)} :
           /\ Commit([g EXCEPT !.space_call = [method |-> "transform", cell |-> cell,
                                               vector |-> vector]])
           /\ hist' = [hist EXCEPT
                        !.env = @ + 1, !.drained = << >>, !.synced = {},
                        !.env_pushed =
                            IF g.ccells = change_cells THEN @
                            ELSE @ \cup {entities[cell].space_component
                                             .instance.changes_buffer}]
    /\ UNCHANGED in_loop

NextTransform ==
    \/ \E parent \in MasterIds : \E d \in EntityDesc : NewEntity(parent, d)
    \/ \E cell \in PlacedCells : \E vector \in TransformVecs : Transform(cell, vector)
    \/ StartupTick
    \/ Redraw

SpecTransform == Init /\ [][NextTransform]_vars

\* ---------------------------------------------------------------------
\* Everything that adds to the registry, the graph or the instance list, next
\* to the frames of the event loop.
\* ---------------------------------------------------------------------

NextGrowth ==
    \/ \E parent \in EntityIds \cup {UnknownId} \cup ComponentIds :
          \E d \in EntityDesc :
             /\ Len(entities) < MaxEntities
             /\ NewEntity(parent, d)
    \/ \E id \in ComponentIds : \E c \in ComponentDomain : RegisterComponent(id, c)
    \/ \E d \in InstanceDesc : RegisterInstance(d)
    \/ StartupTick
    \/ Redraw

SpecGrowth == Init /\ [][NextGrowth]_vars

\* ---------------------------------------------------------------------
\* Space masters anywhere in the graph: entities made with and without a
\* space-delegate override under any entity.
\* ---------------------------------------------------------------------

\* the space delegates a descriptor overrides with (lib.rs:424, 448)
MasterKinds == {GameSpaceMaster, ScreenSpaceMaster}

\* new_entity with a descriptor that overrides the delegates
NewMaster(parent, entity_desc, space_component) ==
    /\ ~aborted /\ ~hung
    /\ hist.env < MaxEnv
    /\ Len(entities) < MaxEntities
    /\ \E g \in {new_entity_with_space(Global, entity_desc, parent, space_component)} :
           /\ Commit(g)
           /\ hist' = [HistRegistered(hist, g.im)
                       EXCEPT !.ent_desc = Append(@, entity_desc), !.env = @ + 1,
                              !.registered = Registered(@, next_id(Global).id,
                                    [kind |-> "Entity", cell |-> Len(entities) + 1]),
                              !.parent = parent, !.override = space_component]
    /\ UNCHANGED in_loop

\* new_entity with a descriptor without overrides
NewPlain(parent, entity_desc) ==
    /\ Len(entities) < MaxEntities
    /\ NewEntity(parent, entity_desc)

NextMasters ==
    \/ \E parent \in EntityIds : \E d \in EntityDesc : NewPlain(parent, d)
    \/ \E parent \in EntityIds : \E d \in EntityDesc : \E s \in MasterKinds :
          NewMaster(parent, d, s)

SpecMasters == Init /\ [][NextMasters]_vars

\* the events handed to the graph
InputEvents == {"e1"}

CompW == Component(101, "Weak", "nothing")
CompN == Component(102, "No", "nothing")
CompS == Component(103, "Strong", "nothing")
\* a component whose tick registers a new entity under the entity it is on
CompR == Component(104, "No", "new_entity")

ComponentLists == {<<CompW, CompN>>, <<CompN, CompS, CompR>>}

EntityDescComp ==
    [position : PosDomain, rotation : DescRotDomain, components : ComponentLists]

\* ObjectWrap::input on the entity an id resolves to
EntityInput(id, event) ==
    /\ ~aborted /\ ~hung
    /\ IdManager_get(map, id).kind = "Entity"
    /\ Commit(Entity_input(Global, IdManager_get(map, id).cell, event))
    /\ UNCHANGED <<in_loop, hist>>

\* what the installed systems answer to an event: no system, or the player
\* controller, which answers Strong or No
SystemAnswers == {<< >>, <<"No">>, <<"Strong">>}

\* the WindowEvent and DeviceEvent arms of run(): context.input(event)
ContextInput(event, answers) ==
    /\ ~aborted /\ ~hung
    /\ in_loop
    /\ Commit(GlobalContext_input(Global, event, answers))
    /\ UNCHANGED <<in_loop, hist>>

NewEntityComp(parent, entity_desc) ==
    /\ Len(entities) < MaxEntities
    /\ NewEntity(parent, entity_desc)

NextComp ==
    \/ \E parent \in EntityIds : \E d \in EntityDescComp : NewEntityComp(parent, d)
    \/ StartupTick
    \/ Redraw
    \/ \E id \in EntityIds : \E event \in InputEvents : EntityInput(id, event)
    \/ \E event \in InputEvents : \E answers \in SystemAnswers :
          ContextInput(event, answers)

SpecComp == Init /\ [][NextComp]_vars


\* a step that ran a frame handler, hence one instance tick
TickStep == frame_log' # << >>

\* the calls of one redraw on the managers
RedrawFrame ==
    <<"process_events", "system_tick", "entity_tick", "instance_tick", "render">>

\* the ancestor chain from the entity with this id up to, excluding, the root
\* holds a space master
RECURSIVE MasterAbove(_)
MasterAbove(id) ==
    IF id = 0 \/ id \notin DOMAIN map THEN FALSE
    ELSE LET e == entities[map[id].cell]
         IN  e.space_component.kind = "GameSpaceMaster" \/ MasterAbove(e.parent_id)

\* the entities made by new_entity (cells 1 and 2 are the root and the master)
Created == 3..Len(entities)

\* the instance-list index bound to a GameSpaceComponent
InstanceIndexOf(space_component) ==
    CHOOSE i \in 1..Len(Instances) : get_ref(Instances[i]) = space_component.instance

\* the instances no entity is bound to
Direct ==
    {i \in 1..Len(Instances) :
        \A c \in Created :
            entities[c].space_component.kind = "GameSpaceComponent"
                => entities[c].space_component.instance # get_ref(Instances[i])}

----
\* C1: within one frame the phases run in the order event dispatch, entity
\* tick, instance-engine tick, render, each at most once; no entity tick is
\* logged before the frame's event dispatch, no instance-engine tick before
\* the entity tick, and no render before the frame's instance-engine tick.
C1_PhaseOrder ==
    LET at(n) == {i \in DOMAIN frame_log : frame_log[i] = n}
        before(a, b) == \A j \in at(b) : \E i \in at(a) : i < j
    IN  /\ \A n \in Range(RedrawFrame) : Cardinality(at(n)) <= 1
        /\ before("process_events", "entity_tick")
        /\ before("entity_tick", "instance_tick")
        /\ before("instance_tick", "render")
        /\ (frame_log # << >>) => (event_queue = << >> /\ last_tick # "none")

\* a rendered frame that delivered an event and drew an entity
C1_Witness ==
    /\ frame_log = RedrawFrame
    /\ input_log # << >>
    /\ render_commands # << >>

\* C2: once creation has returned, every entity whose ancestor chain (parent
\* up to, excluding, the root) holds a space master carries the space
\* delegate and the render delegate the master assigns, both bound to one
\* instance of the engine that no other entity is bound to.
C2_CascadeAssignsDelegates ==
    \A c \in Created :
        MasterAbove(entities[c].parent_id) =>
            LET e == entities[c]
            IN  /\ e.space_component.kind = "GameSpaceComponent"
                /\ e.render_component.kind = "SingleModelComponent"
                /\ e.render_component.instance_ref = e.space_component.instance
                /\ Cardinality({i \in 1..Len(Instances) :
                       /\ get_ref(Instances[i]) = e.space_component.instance
                       /\ Instances[i].instance_type = "Model"}) = 1
                /\ \A d \in Created \ {c} :
                       entities[d].space_component # e.space_component

\* an entity created under a child of the space master: the master is reached
\* by the second turn of the cascade
C2_Witness ==
    \E c \in Created :
        /\ entities[c].parent_id # entities[2].id
        /\ MasterAbove(entities[c].parent_id)
        /\ entities[c].space_component.kind = "GameSpaceComponent"

C4_Scenario ==
    /\ hist.env = 1
    /\ Len(entities) = 3
    /\ entities[3].parent_id = entities[2].id
    /\ hist.ent_desc[3].position = <<1, 2, 0>>
    /\ frame_log = RedrawFrame
    /\ last_tick = "rebuild"

Applied(i, q) == apply_changes(Instances[i], q)

\* instance number i after the step, and its packed record after the step
After(i) == instance_manager'.instances[i]
RecordAfter(i) == RecordOf(instance_manager', buffer_id_cells', After(i))

\* C5 as stated: every mutation enqueued before an instance-engine tick is
\* applied in enqueue order and reflected in the packed record by the end of
\* that tick, on the full-rebuild path as on the partial-write path.
C5_AppliedOnEveryTick ==
    [][TickStep =>
        \A i \in 1..Len(Instances) :
            LET want == Applied(i, QueueOf(Instances[i]))
            IN  /\ After(i).position = want.position
                /\ After(i).rotation = want.rotation
                /\ RecordAfter(i) = to_raw(want)
                /\ change_cells'[Instances[i].change_buffer] = << >>]_vars

\* C5 amended: on a partial-write tick every mutation enqueued before the
\* tick is applied in enqueue order and reflected in the packed record by the
\* end of the tick, and the queue is left empty; on a full-rebuild tick no
\* queued mutation is applied and none is dropped: position and rotation are
\* unchanged, the queue keeps its content in order, and the record written is
\* the packed form of the unchanged state.
C5_AppliedOnPartialKeptOnRebuild ==
    [][TickStep =>
        \A i \in 1..Len(Instances) :
            LET want == IF instance_manager.needs_buffer_remake
                        THEN Instances[i]
                        ELSE Applied(i, QueueOf(Instances[i]))
            IN  /\ After(i).position = want.position
                /\ After(i).rotation = want.rotation
                /\ RecordAfter(i) = to_raw(want)
                /\ change_cells'[Instances[i].change_buffer] =
                       IF instance_manager.needs_buffer_remake
                       THEN QueueOf(Instances[i]) ELSE << >>]_vars

\* a full rebuild has run over an instance with two mutations pending: they
\* are still queued and the instance is where it was registered
C5_Witness ==
    /\ last_tick = "rebuild"
    /\ \E i \in Direct :
          /\ Len(QueueOf(Instances[i])) = 2
          /\ Instances[i].position = hist.inst_desc[i].position
          /\ RecordOf(instance_manager, buffer_id_cells, Instances[i])
                 = to_raw(hist.inst_desc[i])

\* C6: the instance-engine tick takes the full-rebuild path if and only if
\* it is the first tick or an instance was registered since the previous
\* tick; every register sets the dirty flag and every tick leaves it clear; a
\* rebuild issues no partial write, and a tick without the flag writes exactly
\* the instances whose queue is non-empty, in list order, and leaves the
\* others and their records as they were.
C6_RebuildIffFirstOrRegistered ==
    [][/\ Len(instance_manager'.instances) > Len(Instances)
            => instance_manager'.needs_buffer_remake
       /\ TickStep =>
            LET pending == {i \in 1..Len(Instances) : QueueOf(Instances[i]) # << >>}
            IN  /\ (last_tick' = "rebuild") <=> (~hist.ticked \/ hist.fresh # {})
                /\ (last_tick' = "rebuild") <=> instance_manager.needs_buffer_remake
                /\ ~instance_manager'.needs_buffer_remake
                /\ last_tick' = "rebuild" => write_log' = << >>
                /\ last_tick' = "partial" =>
                     /\ Len(write_log') = Cardinality(pending)
                     /\ \A i \in (1..Len(Instances)) \ pending :
                           /\ After(i) = Instances[i]
                           /\ RecordAfter(i)
                                  = RecordOf(instance_manager, buffer_id_cells,
                                             Instances[i])]_vars

\* a partial-write tick that wrote some instances and skipped others
C6_Witness ==
    /\ last_tick = "partial"
    /\ write_log # << >>
    /\ Len(write_log) < Len(Instances)
    /\ \E i \in 1..Len(Instances) : hist.drained[i] = << >>

\* C7: an instance registered with descriptor desc and ticked next, with no
\* mutation queued in between, has the packed form of desc.position and
\* desc.rotation in the buffer record at its slot, and position and rotation
\* equal to those of desc.
C7_RegisterTickRoundTrip ==
    [][TickStep =>
        \A k \in hist.fresh :
            QueueOf(Instances[k]) = << >> =>
                /\ After(k).position = hist.inst_desc[k].position
                /\ After(k).rotation = hist.inst_desc[k].rotation
                /\ RecordAfter(k) = to_raw(hist.inst_desc[k])]_vars

\* a sprite registered after another instance went through its first tick
\* untouched
C7_Witness ==
    /\ last_tick = "rebuild"
    /\ Len(Instances) >= 2
    /\ \E k \in hist.synced :
          /\ k > 1
          /\ Instances[k].instance_type = "Sprite"
          /\ QueueOf(Instances[k]) = << >>
          /\ RecordOf(instance_manager, buffer_id_cells, Instances[k])
                 = to_raw(hist.inst_desc[k])

\* C8: with the buffer rebuilt and nothing registered since, add_pos(d) on
\* one instance followed by a tick sets that instance's position to its
\* previous position plus d on the partial-write path: exactly one write is
\* issued, at the byte offset of that instance's slot, and no other
\* instance's state or buffer record changes.
C8_AddPosPartialWrite ==
    [][(TickStep /\ ~instance_manager.needs_buffer_remake) =>
        \A k \in 1..Len(Instances) :
            (/\ QueueOf(Instances[k]) = <<PositionAdd(AddVec)>>
             /\ \A j \in (1..Len(Instances)) \ {k} : QueueOf(Instances[j]) = << >>)
            =>
            LET size == IF Instances[k].instance_type = "Model"
                        THEN INSTANCE_RAW_3D_SIZE ELSE INSTANCE_RAW_2D_SIZE
            IN  /\ After(k).position = Vector3_add(Instances[k].position, AddVec)
                /\ After(k).rotation = Instances[k].rotation
                /\ last_tick' = "partial"
                /\ write_log' =
                     << [buffer |-> IF Instances[k].instance_type = "Model"
                                    THEN "3d" ELSE "2d",
                         offset |-> buffer_id_cells[Instances[k].buffer_id] * size] >>
                /\ RecordAfter(k) = to_raw(After(k))
                /\ Len(instance_manager'.instance_3d_buffer)
                       = Len(instance_manager.instance_3d_buffer)
                /\ Len(instance_manager'.instance_2d_buffer)
                       = Len(instance_manager.instance_2d_buffer)
                /\ \A j \in (1..Len(Instances)) \ {k} :
                      /\ After(j) = Instances[j]
                      /\ RecordAfter(j) = RecordOf(instance_manager, buffer_id_cells,
                                                   Instances[j])]_vars

\* a tick has applied one add_pos to the second of two instances of one type
C8_Witness ==
    /\ last_tick = "partial"
    /\ Len(write_log) = 1
    /\ \E k \in 2..Len(Instances) :
          /\ hist.drained[k] = <<PositionAdd(AddVec)>>
          /\ Instances[k].instance_type = Instances[1].instance_type
          /\ Instances[k].position = Vector3_add(hist.inst_desc[k].position, AddVec)
          /\ write_log[1].offset > 0

\* the left fold of the queued operations over a position: the value before
\* the last operation, then the last operation (Set replaces, Add adds)
RECURSIVE FoldPosition(_, _)
FoldPosition(p, q) ==
    IF q = << >> THEN p
    ELSE LET before == FoldPosition(p, SubSeq(q, 1, Len(q) - 1))
             last == q[Len(q)]
         IN  IF last.op = "PositionSet" THEN last.arg
             ELSE IF last.op = "PositionAdd"
                  THEN <<before[1] + last.arg[1], before[2] + last.arg[2],
                         before[3] + last.arg[3]>>
                  ELSE before

\* the same fold over a rotation; the handle passes (x, y, z, w), the state
\* holds <<w, x, y, z>>
RECURSIVE FoldRotation(_, _)
FoldRotation(r, q) ==
    IF q = << >> THEN r
    ELSE LET before == FoldRotation(r, SubSeq(q, 1, Len(q) - 1))
             last == q[Len(q)]
             arg == <<last.arg[4], last.arg[1], last.arg[2], last.arg[3]>>
         IN  IF last.op = "RotationSet" THEN arg
             ELSE IF last.op = "RotationAdd"
                  THEN <<before[1] + arg[1], before[2] + arg[2],
                         before[3] + arg[3], before[4] + arg[4]>>
                  ELSE before

\* C9: on a partial-write tick the new position of an instance, and likewise
\* its rotation, is the left fold of its queued operations in enqueue order
\* over the previous value, a Set replacing the value and an Add adding to
\* it; so [Add a, Set b] yields b and [Set b, Add a] yields b + a, whichever
\* clones of the handle pushed them.
C9_LeftFold ==
    [][(TickStep /\ ~instance_manager.needs_buffer_remake) =>
        \A i \in 1..Len(Instances) :
            LET q == QueueOf(Instances[i])
            IN  /\ After(i).position = FoldPosition(Instances[i].position, q)
                /\ After(i).rotation = FoldRotation(Instances[i].rotation, q)
                /\ q = <<PositionAdd(AddVec), PositionSet(SetVec)>>
                       => After(i).position = SetVec
                /\ q = <<PositionSet(SetVec), PositionAdd(AddVec)>>
                       => After(i).position = Vector3_add(SetVec, AddVec)]_vars

\* a partial-write tick has applied [Set b, Add a] to an instance
C9_Witness ==
    /\ last_tick = "partial"
    /\ \E i \in 1..Len(Instances) :
          /\ hist.drained[i] = <<PositionSet(SetVec), PositionAdd(AddVec)>>
          /\ Instances[i].position = Vector3_add(SetVec, AddVec)
          /\ Instances[i].position # hist.inst_desc[i].position

\* C10: a set_pos / add_pos / set_rot / add_rot call on a handle leaves the
\* position and rotation of every instance as they were and appends exactly
\* one operation to the queue of the handle's instance, leaving the other
\* queues and the buffers alone; position and rotation change only in a step
\* that runs an instance-engine tick.
C10_QueuedNeverImmediate ==
    [][/\ \A i \in 1..Len(Instances) :
             (\/ After(i).position # Instances[i].position
              \/ After(i).rotation # Instances[i].rotation) => TickStep
       /\ (/\ hist'.env # hist.env
           /\ Len(instance_manager'.instances) = Len(Instances)
           /\ Len(entities') = Len(entities))
          => /\ instance_manager' = instance_manager
             /\ buffer_id_cells' = buffer_id_cells
             /\ \E k \in DOMAIN change_cells :
                   /\ \E c \in InstanceChange :
                         change_cells'[k] = Append(change_cells[k], c)
                   /\ \A j \in (DOMAIN change_cells) \ {k} :
                         change_cells'[j] = change_cells[j]]_vars

\* a handle call has just returned on an instance the buffer already holds:
\* the operation is queued, the instance and its record are as registered
C10_Witness ==
    /\ frame_log = << >>
    /\ hist.ticked
    /\ ~instance_manager.needs_buffer_remake
    /\ \E i \in Direct :
          /\ Instances[i].change_buffer \in hist.env_pushed
          /\ Len(QueueOf(Instances[i])) = 1
          /\ Instances[i].position = hist.inst_desc[i].position
          /\ Instances[i].rotation = hist.inst_desc[i].rotation
          /\ RecordOf(instance_manager, buffer_id_cells, Instances[i])
                 = to_raw(hist.inst_desc[i])

----
\* C11: a translate or set_pos on a GameSpaceComponent with a vector whose
\* length is not 3, a rotate or set_rot with one whose length is not 4 (on a
\* ScreenSpaceComponent: not 2 for the position methods, not 4 for the rotation
\* methods) enqueues nothing, changes no instance, no buffer and no entity,
\* prints the wrong-size line and does not abort; the tick that follows reads
\* the queues and instances the call left as they were.
WrongArity(call) ==
    /\ call.method # "none"
    /\ entities[call.cell].space_component.kind
            \in {"GameSpaceComponent", "ScreenSpaceComponent"}
    /\ Len(call.vector) # expected_len(entities[call.cell].space_component, call.method)

C11_ArityGuard ==
    [][WrongArity(space_call')
        => /\ change_cells' = change_cells
           /\ instance_manager' = instance_manager
           /\ buffer_id_cells' = buffer_id_cells
           /\ entities' = entities
           /\ Len(notice_log') = 1 /\ notice_log'[1].kind = "wrong_size"
           /\ ~aborted']_vars

\* a three-element translate was refused by a ScreenSpaceComponent whose queue
\* already held an accepted change, after a tick
C11_Witness ==
    /\ WrongArity(space_call)
    /\ space_call.method = "translate" /\ Len(space_call.vector) = 3
    /\ entities[space_call.cell].space_component.kind = "ScreenSpaceComponent"
    /\ change_cells[entities[space_call.cell].space_component
                        .instance.changes_buffer] # << >>
    /\ in_loop
    /\ ~aborted /\ ~hung

----
\* The event bus: vocabulary of C12 to C16.

\* the entries of a log that were issued while the event of this slot of the
\* queue was dispatched
Slot(log, s) == SelectSeq(log, LAMBDA t : t.slot = s)

\* the slot holds an event whose destination has a subscriber list
Known(s) == event_queue[s].destination \in DOMAIN destinations

\* the subscriber list the event of the slot goes to
Subscribers(s) == destinations[event_queue[s].destination]

Resolves(id) == IdManager_get(map, id).kind # "None"

IdsOf(log) == [i \in DOMAIN log |-> log[i].id]

\* C12: an event sent to a destination without a subscriber list calls no
\* input handler and changes no entity and no registration, prints exactly one
\* destination-not-found line for that event, does not abort, and the events
\* still in the queue when it is popped are dispatched to their subscribers.
C12_UnknownDestination ==
    [][TickStep =>
        \A s \in DOMAIN event_queue :
            ~Known(s) =>
                /\ Slot(input_log', s) = << >>
                /\ Slot(notice_log', s) =
                       << [kind |-> "destination_not_found",
                           destination |-> event_queue[s].destination,
                           slot |-> s] >>
                /\ entities' = entities
                /\ map' = map
                /\ destinations' = destinations
                /\ ~aborted'
                /\ \A r \in 1..(s - 1) :
                      Known(r) =>
                          Len(Slot(input_log', r)) + Len(Slot(notice_log', r))
                              = Len(Subscribers(r))]_vars

\* a frame printed the line for one event and after it delivered an older one
C12_Witness ==
    /\ frame_log # << >>
    /\ \E i \in DOMAIN notice_log : \E j \in DOMAIN input_log :
          /\ notice_log[i].kind = "destination_not_found"
          /\ input_log[j].slot < notice_log[i].slot
    /\ ~aborted /\ ~hung

\* C13: the events pending at a dispatch are delivered last sent first: every
\* input call for a younger event precedes every input call for an older one,
\* whatever their destinations, and each call carries the event of its slot.
C13_Lifo ==
    [][TickStep =>
        /\ \A i, j \in DOMAIN input_log' :
              i < j => input_log'[i].slot >= input_log'[j].slot
        /\ \A i \in DOMAIN input_log' :
              /\ input_log'[i].slot \in DOMAIN event_queue
              /\ input_log'[i].event = event_queue[input_log'[i].slot].event
              /\ input_log'[i].destination
                    = event_queue[input_log'[i].slot].destination]_vars

\* a frame delivered two events of different destinations, the younger first
C13_Witness ==
    /\ frame_log # << >>
    /\ \E i, j \in DOMAIN input_log :
          /\ i < j
          /\ input_log[i].slot > input_log[j].slot
          /\ input_log[i].destination # input_log[j].destination
          /\ input_log[i].event # input_log[j].event

\* C14: process_events leaves the queue empty and has dispatched every pending
\* event exactly once; every other operation, send_event and
\* register_destination among them, keeps what the queue held, so the queue
\* only shrinks in process_events.
C14_OnlyDispatchDrains ==
    [][/\ TickStep =>
            /\ event_queue' = << >>
            /\ \A s \in DOMAIN event_queue :
                  Len(Slot(input_log', s)) + Len(Slot(notice_log', s))
                      = IF Known(s) THEN Len(Subscribers(s)) ELSE 1
       /\ ~TickStep =>
            /\ Len(event_queue') >= Len(event_queue)
            /\ SubSeq(event_queue', 1, Len(event_queue)) = event_queue
            /\ (destinations' # destinations => event_queue' = event_queue)]_vars

\* a frame emptied a queue of at least two events
C14_Witness ==
    /\ frame_log # << >>
    /\ event_queue = << >>
    /\ \E i \in DOMAIN input_log : input_log[i].slot >= 2
    /\ \E i \in DOMAIN notice_log : notice_log[i].slot = 1

\* C15: for each drained event the input handler is called once per entry of
\* the destination's subscriber list that resolves, in registration order: an
\* id registered k times receives the event k times and every distinct
\* registered id that resolves receives it at least once.
C15_OncePerEntry ==
    [][TickStep =>
        \A s \in DOMAIN event_queue :
            Known(s) =>
                /\ IdsOf(Slot(input_log', s))
                      = SelectSeq(Subscribers(s), Resolves)
                /\ \A id \in Range(Subscribers(s)) :
                      Resolves(id) =>
                        Cardinality({i \in DOMAIN input_log' :
                                        /\ input_log'[i].slot = s
                                        /\ input_log'[i].id = id})
                          = Cardinality({k \in DOMAIN Subscribers(s) :
                                            Subscribers(s)[k] = id})]_vars

\* one event reached an id registered twice twice, around another id
C15_Witness ==
    /\ frame_log # << >>
    /\ \E s \in 1..MaxEnv :
          LET got == IdsOf(Slot(input_log, s))
          IN  /\ Len(got) = 3
              /\ got[1] = got[3]
              /\ got[1] # got[2]

\* C16: a subscriber id that does not resolve is skipped with one line
\* printed per entry and without aborting: the ids of the same list that
\* resolve, registered before it or after it, still receive the event, and
\* the queue is drained to the end.
C16_UnresolvedSkipped ==
    [][TickStep =>
        /\ \A s \in DOMAIN event_queue :
              Known(s) =>
                /\ IdsOf(Slot(notice_log', s))
                      = SelectSeq(Subscribers(s), LAMBDA id : ~Resolves(id))
                /\ \A k \in DOMAIN Subscribers(s) :
                      Resolves(Subscribers(s)[k]) =>
                        \E i \in DOMAIN input_log' :
                            /\ input_log'[i].slot = s
                            /\ input_log'[i].id = Subscribers(s)[k]
                /\ \A i \in DOMAIN input_log' : Resolves(input_log'[i].id)
        /\ event_queue' = << >>
        /\ ~aborted']_vars

\* an event was refused by an unknown id and then delivered to the id
\* registered after it, and an older event was dispatched after that
C16_Witness ==
    /\ frame_log # << >>
    /\ ~aborted /\ ~hung
    /\ \E n \in DOMAIN notice_log : \E i, j \in DOMAIN input_log :
          /\ notice_log[n].kind = "id_not_found"
          /\ notice_log[n].id = UnknownId
          /\ input_log[i].slot = notice_log[n].slot
          /\ \E k, l \in DOMAIN destinations[input_log[i].destination] :
                /\ k < l
                /\ destinations[input_log[i].destination][k] = UnknownId
                /\ destinations[input_log[i].destination][l] = input_log[i].id
          /\ input_log[j].slot < notice_log[n].slot

----
\* The identity registry and the entity graph: vocabulary of C17 to C20.

\* what the history of registrations says an id holds
LastRegistered(h, id) ==
    IF id \in DOMAIN h.registered THEN h.registered[id] ELSE [kind |-> "None"]

\* a step in which new_entity pushed an entity on the flat list
NewEntityStep == Len(entities') = Len(entities) + 1

\* the cell new_entity fills
NewCell == Len(entities) + 1

\* C17: resolve(id) returns the object last registered under the id, so the
\* second of two objects registered under one id and never the first, and
\* nothing for an id never registered; a resolve leaves the mapping as it was.
C17_Registry ==
    [][/\ \A id \in (DOMAIN map') \cup (DOMAIN hist'.registered)
                    \cup ComponentIds \cup {UnknownId} :
             IdManager_get(map', id) = LastRegistered(hist', id)
       /\ resolved'.kind = "Called" =>
             /\ resolved'.got = LastRegistered(hist, resolved'.id)
             /\ map' = map]_vars

\* the second component registered under an id is what resolve returned
C17_Witness ==
    /\ resolved.kind = "Called"
    /\ resolved.id \in ComponentIds
    /\ resolved.got = [kind |-> "Component", component |-> "c2"]
    /\ hist.replaced = {[id |-> resolved.id,
                         old |-> [kind |-> "Component", component |-> "c1"]]}

\* the parent id handed to new_entity resolved to no entity when it was called
BadParent == IdManager_get(map, hist'.parent).kind # "Entity"

\* the entity new_entity made is in the child list of the entity its parent
\* id resolves to
InChildListOfParent ==
    /\ IdManager_get(map', entities'[NewCell].parent_id).kind = "Entity"
    /\ NewCell \in Range(entities'[IdManager_get(map',
                              entities'[NewCell].parent_id).cell].children)

\* C18 as stated: new_entity with a parent id that is not in the registry, or
\* that resolves to a component, terminates the process; and new_entity never
\* returns an entity that is missing from its parent's child list.
C18_BadParentTerminates ==
    [][NewEntityStep =>
        /\ BadParent => aborted'
        /\ (~aborted' /\ ~hung') => InChildListOfParent]_vars

\* a graph of entities: every cell but the root's holds a non-zero id found
\* once in the flat list, resolves to its cell, sits in exactly one place of
\* the child lists, which is in the list of its parent, and reaches the root
\* along the parent ids
RECURSIVE ReachesRoot(_, _, _, _)
ReachesRoot(ents, m, id, fuel) ==
    \/ id = 0
    \/ /\ fuel > 0
       /\ IdManager_get(m, id).kind = "Entity"
       /\ ReachesRoot(ents, m, ents[IdManager_get(m, id).cell].parent_id, fuel - 1)

Places(ents, c) ==
    {pl \in (DOMAIN ents) \X (1..Len(ents)) :
        /\ pl[2] \in DOMAIN ents[pl[1]].children
        /\ ents[pl[1]].children[pl[2]] = c}

Tree(ents, m) ==
    /\ ents[1].id = 0
    /\ IdManager_get(m, 0) = [kind |-> "Entity", cell |-> 1]
    /\ Places(ents, 1) = {}
    /\ \A c \in 2..Len(ents) :
          /\ ents[c].id # 0
          /\ {k \in DOMAIN ents : ents[k].id = ents[c].id} = {c}
          /\ IdManager_get(m, ents[c].id) = [kind |-> "Entity", cell |-> c]
          /\ Cardinality(Places(ents, c)) = 1
          /\ \A pl \in Places(ents, c) : ents[pl[1]].id = ents[c].parent_id
          /\ ReachesRoot(ents, m, ents[c].id, Len(ents))

\* C19: whenever the calls of new_entity so far have returned, the graph is a
\* tree rooted at id 0: every entity but the root is once in the flat list,
\* resolves to itself, is in exactly one child list, the one of its parent,
\* and reaches id 0 along the parent ids; no step changes the id or the parent
\* id of an entity.
C19_Tree ==
    [][/\ (~aborted' /\ ~hung') => Tree(entities', map')
       /\ \A c \in DOMAIN entities :
             /\ entities'[c].parent_id = entities[c].parent_id
             /\ entities'[c].id = entities[c].id]_vars

\* a chain of three entities below the master, and a second child of the root
C19_Witness ==
    /\ ~aborted /\ ~hung
    /\ Len(entities) = 6
    /\ Len(entities[1].children) = 2
    /\ \E c \in DOMAIN entities :
          \E p \in DOMAIN entities :
              /\ entities[c].parent_id = entities[p].id
              /\ entities[p].parent_id \notin {0, entities[2].id}

\* the ids from this one up to, excluding, the root, along the parent ids
RECURSIVE Ancestors(_)
Ancestors(id) ==
    IF id = 0 THEN << >>
    ELSE <<id>> \o Ancestors(entities[IdManager_get(map, id).cell].parent_id)

\* the number of parent links between the entity with this id and the root
RECURSIVE DepthBelowRoot(_)
DepthBelowRoot(id) ==
    IF id = 0 THEN 0
    ELSE 1 + DepthBelowRoot(entities[IdManager_get(map, id).cell].parent_id)

\* C20: for a parent that resolves to an entity when new_entity is called, the
\* cascade ends and has called init_child once on each ancestor of the new
\* entity, from the parent upwards, with depths 0, 1, 2, ..., and not on the
\* root; the calls are as many as the parent is links below the root, none
\* for a child of the root.
C20_Cascade ==
    [][(NewEntityStep /\ ~BadParent) =>
        /\ ~aborted' /\ ~hung'
        /\ init_log' = [i \in 1..Len(Ancestors(hist'.parent)) |->
                           [ancestor |-> Ancestors(hist'.parent)[i],
                            child |-> NewCell, depth |-> i - 1]]
        /\ Len(init_log') = DepthBelowRoot(hist'.parent)
        /\ \A i \in DOMAIN init_log' : init_log'[i].ancestor # 0
        /\ (hist'.parent = 0 => init_log' = << >>)]_vars

\* a creation three links below the root: three calls, depths 0, 1, 2
C20_Witness ==
    /\ ~aborted /\ ~hung
    /\ Len(init_log) = 3
    /\ init_log[1].ancestor = entities[init_log[1].child].parent_id
    /\ init_log[3].depth = 2
    /\ init_log[3].ancestor = entities[2].id

----
\* Responses: vocabulary of C24 to C26.

Rank(r) == CASE r = "No" -> 0 [] r = "Weak" -> 1 [] r = "Strong" -> 2

\* the greatest response of a list under No < Weak < Strong, No for none
Greatest(rs) ==
    IF \E i \in DOMAIN rs : rs[i] = "Strong" THEN "Strong"
    ELSE IF \E i \in DOMAIN rs : rs[i] = "Weak" THEN "Weak"
    ELSE "No"

\* C25: with returns the greater of its two arguments under
\* No < Weak < Strong for each of the nine pairs; it is commutative,
\* associative and idempotent and No is its identity; the fold of a list of
\* responses is the greatest of the list, whatever the order of the list.
C25_WithIsMax ==
    /\ response.of = "with" =>
          LET a == response.args[1]
              b == response.args[2]
          IN  /\ response.value \in {a, b}
              /\ Rank(response.value) >= Rank(a)
              /\ Rank(response.value) >= Rank(b)
              /\ response.value = Response_with(b, a)
              /\ (a = b => response.value = a)
              /\ (a = "No" => response.value = b)
              /\ (b = "No" => response.value = a)
    /\ response.of = "fold" =>
          /\ response.value = Greatest(response.args)
          /\ \A rs \in AnswerLists :
                Range(rs) = Range(response.args)
                    => SystemManager_input(rs) = response.value
          /\ Len(response.args) = 3 =>
                LET a == response.args[1]
                    b == response.args[2]
                    c == response.args[3]
                IN  Response_with(Response_with(a, b), c)
                        = Response_with(a, Response_with(b, c))

\* a fold over Weak, Strong, No in that order answered Strong
C25_Witness ==
    /\ response.of = "fold"
    /\ response.args = <<"Weak", "Strong", "No">>
    /\ response.value = "Strong"

\* the lifecycle steps new_entity made for the entity it returned
InitChildSteps(ids) ==
    [i \in DOMAIN ids |-> [step |-> "init_child", ancestor |-> ids[i],
                           in_registry |-> TRUE, in_child_list |-> TRUE]]

\* the positions of the calls of one kind in the component log
CallsAt(log, call) == {i \in DOMAIN log : log[i].call = call}

\* C21: inside one new_entity the entity is registered, pushed on the flat
\* list and added to its parent's child list before any ancestor's init_child;
\* the ancestors are asked nearest first and all of them before the entity's
\* own init, which runs once, calls init once on each own component in list
\* order, and precedes the translate by the descriptor position, made on the
\* delegate the cascade left; no tick, render or input happens in the handler
C21_LifecycleOrder ==
    [][(NewEntityStep /\ ~aborted' /\ ~hung') =>
          /\ life_log' =
                << [step |-> "register_entity"], [step |-> "push"],
                   [step |-> "add_child"] >>
                \o InitChildSteps(Ancestors(hist'.parent))
                \o << [step |-> "init", entity |-> entities'[NewCell].id],
                      [step |-> "translate",
                       delegate |-> entities'[NewCell].space_component] >>
          /\ LET inits == CallsAt(component_log', "init")
                 asked == CallsAt(component_log', "init_child_entity")
             IN  /\ \A i \in inits : \A k \in asked : k < i
                 /\ SelectSeq(component_log', LAMBDA c : c.call = "init")
                        = component_calls(entities'[NewCell], "init")
                 /\ inits \cup asked = DOMAIN component_log'
          /\ render_commands' = << >>
          /\ input_log' = << >>
          /\ frame_log' = << >>]_vars

\* an entity with three components was made under an entity two levels below
\* the root whose own components were asked about it
C21_Witness ==
    /\ ~aborted /\ ~hung
    /\ Len(life_log) = 7
    /\ life_log[4].step = "init_child" /\ life_log[5].step = "init_child"
    /\ Cardinality(CallsAt(component_log, "init")) = 3
    /\ CallsAt(component_log, "init_child_entity") # {}


\* the tick calls of a component log, in the order they were made
TickCalls(log) == SelectSeq(log, LAMBDA c : c.call = "tick")

\* the ids on the way from the root down to an entity
RECURSIVE PathFromRoot(_)
PathFromRoot(id) ==
    IF id = 0 THEN <<0>>
    ELSE Append(PathFromRoot(entities[IdManager_get(map, id).cell].parent_id), id)

\* the place of a child in its parent's child list
ChildPos(parent, child) ==
    LET children == entities[IdManager_get(map, parent).cell].children
    IN  CHOOSE k \in DOMAIN children : children[k] = IdManager_get(map, child).cell

\* a comes before b in the pre-order of the tree: a is an ancestor of b, or
\* where their ways from the root part, a's branch is the earlier child
PreOrderBefore(a, b) ==
    LET pa == PathFromRoot(a)
        pb == PathFromRoot(b)
        differ == {k \in DOMAIN pa \cap DOMAIN pb : pa[k] # pb[k]}
    IN  IF differ = {} THEN Len(pa) < Len(pb)
        ELSE LET k == CHOOSE x \in differ : \A y \in differ : x <= y
             IN  ChildPos(pa[k - 1], pa[k]) < ChildPos(pa[k - 1], pb[k])

\* C22: a graph tick that returns ticks every component of every entity once,
\* an entity's components in list order, and entities in the pre-order of the
\* tree from the root (an entity before its descendants, children in child-list
\* order); a tick right after a tick makes the same sequence of calls
C22_TickPreOrder ==
    [][(TickStep /\ ~aborted') =>
          LET ticks == TickCalls(component_log')
          IN  /\ \A c \in DOMAIN entities :
                    SelectSeq(ticks, LAMBDA t : t.entity = entities[c].id)
                        = component_calls(entities[c], "tick")
              /\ \A i \in DOMAIN ticks :
                    \E c \in DOMAIN entities : ticks[i].entity = entities[c].id
              /\ \A i, j \in DOMAIN ticks :
                    (i < j /\ ticks[i].entity # ticks[j].entity)
                        => PreOrderBefore(ticks[i].entity, ticks[j].entity)
              /\ entities' = entities
              /\ frame_log # << >> => ticks = TickCalls(component_log)]_vars

\* a tick returned after ticking an entity with components, two of its
\* children and an entity elsewhere in the tree
C22_Witness ==
    /\ ~aborted /\ ~hung
    /\ frame_log # << >>
    /\ Len(TickCalls(component_log)) >= 6
    /\ \E a, b, c \in DOMAIN entities :
          /\ b # c
          /\ entities[a].components # << >>
          /\ entities[b].components # << >> /\ entities[c].components # << >>
          /\ entities[b].parent_id = entities[a].id
          /\ entities[c].parent_id # entities[a].id
          /\ a < c /\ c < b


\* the graph holds a component whose tick registers a new entity
HasSpawner ==
    \E c \in DOMAIN entities : \E i \in DOMAIN entities[c].components :
        entities[c].components[i].on_tick = "new_entity"

\* C28 as stated: a component's tick that registers a new entity under the
\* entity being ticked completes without aborting the process, and the entity
\* is appended to the registry, the flat list and its parent's child list
C28_ReentrantPermitted ==
    [][(TickStep /\ HasSpawner) =>
          /\ ~aborted'
          /\ Len(entities') = Len(entities) + 1
          /\ IdManager_get(map', entities'[NewCell].id)
                = [kind |-> "Entity", cell |-> NewCell]
          /\ InChildListOfParent]_vars


\* the handler was Entity::input
InputStep == response'.of = "input"

\* C24: Entity.input calls input once on each of the entity's own components
\* in list order and on nothing else, and answers the greatest of their
\* responses: No without components, Strong exactly if one answered Strong
C24_InputFold ==
    [][InputStep =>
          LET entity == entities[IdManager_get(map, response'.entity).cell]
              answers == [i \in DOMAIN entity.components |->
                             entity.components[i].answer]
          IN  /\ component_log' = component_calls(entity, "input")
              /\ \A i \in DOMAIN component_log' :
                    component_log'[i].entity = response'.entity
              /\ response'.value = Greatest(answers)
              /\ (entity.components = << >> => response'.value = "No")
              /\ (response'.value = "Strong"
                    <=> \E i \in DOMAIN answers : answers[i] = "Strong")
              /\ \A i \in DOMAIN answers :
                    Rank(response'.value) >= Rank(answers[i])
              /\ entities' = entities]_vars

\* an entity with two components, none of them answering Strong, and with a
\* child that has a Strong one, answered Weak
C24_Witness ==
    /\ response.of = "input"
    /\ response.value = "Weak"
    /\ Len(component_log) = 2
    /\ \E c \in DOMAIN entities :
          /\ entities[c].parent_id = response.entity
          /\ \E i \in DOMAIN entities[c].components :
                entities[c].components[i].answer = "Strong"


\* the handler was GlobalContext::input
ContextInputStep == response'.of = "context_input"

\* C26 as stated: an event handed to GlobalContext.input is forwarded to the
\* systems and then enters the entity graph at the root
C26_InputEntersAtRoot ==
    [][ContextInputStep =>
          /\ response'.systems \in Response
          /\ \E i \in DOMAIN input_log' :
                /\ input_log'[i].kind = "input"
                /\ input_log'[i].id = 0
                /\ input_log'[i].event = response'.event]_vars


\* the cells of the entities whose render delegate draws something
RenderingCells ==
    {c \in DOMAIN entities :
        entities[c].render_component.kind
            \in {"SingleModelComponent", "SingleSpriteComponent"}}

\* the place of the command of a rendering entity in one traversal: after the
\* commands of the rendering entities that come before it in the pre-order
CommandPlace(c) ==
    1 + Cardinality({d \in RenderingCells \ {c} :
                        PreOrderBefore(entities[d].id, entities[c].id)})

\* after the step: the slot of the instance a delegate is bound to, which is
\* the number of instances of its type registered before it
SlotAfter(ref) ==
    LET i == CHOOSE k \in DOMAIN Instances' :
                 Instances'[k].buffer_id = ref.gpu_buffer_id
    IN  Cardinality({k \in 1..(i - 1) :
            Instances'[k].instance_type = Instances'[i].instance_type})

\* the handler rendered
RenderStep == frame_log' = RedrawFrame

\* C23: one render traversal collects no command for an entity with the no-op
\* render delegate and exactly one for each entity with a single-model ("3d")
\* or single-sprite ("2d") delegate, in the pre-order of the tree, each with the
\* instance range [s, s + 1) for the current slot s of the entity's instance
C23_RenderPreOrder ==
    [][RenderStep =>
          /\ Len(render_commands') = Cardinality(RenderingCells)
          /\ \A c \in RenderingCells :
                LET rc == entities[c].render_component
                    command == render_commands'[CommandPlace(c)]
                    s == buffer_id_cells'[rc.instance_ref.gpu_buffer_id]
                IN  /\ command.renderer =
                          (IF rc.kind = "SingleModelComponent" THEN "3d" ELSE "2d")
                    /\ command.instances = <<s, s + 1>>
                    /\ s = SlotAfter(rc.instance_ref)
          /\ entities' = entities]_vars

\* a traversal collected a 3d command for an entity made after the 2d entity
\* whose command follows it
C23_Witness ==
    /\ frame_log = RedrawFrame
    /\ Len(render_commands) >= 3
    /\ \E i \in DOMAIN render_commands :
          /\ i < Len(render_commands)
          /\ render_commands[i].renderer = "3d"
          /\ render_commands[i + 1].renderer = "2d"
          /\ render_commands[i].instances[1] >= 1
    /\ \E c, d \in DOMAIN entities :
          /\ c < d
          /\ entities[c].render_component.kind = "SingleSpriteComponent"
          /\ entities[d].render_component.kind = "SingleModelComponent"


\* the ids of the space masters on the way from an entity up to the root,
\* nearest first
MastersAbove(id) ==
    SelectSeq(Ancestors(id), LAMBDA a :
        entities[IdManager_get(map, a).cell].space_component \in MasterKinds)

\* the handler was new_entity with a descriptor that overrides the delegates
OverrideStep == NewEntityStep /\ hist'.override \in MasterKinds

PlainStep == NewEntityStep /\ hist'.override \notin MasterKinds

\* C30: when new_entity returns an entity made without overrides, its
\* delegates are those of the space master nearest the root on its ancestor
\* chain, whatever the masters below that one assigned, and both are bound to
\* the instance that master registered, the last of the instances the masters
\* of the chain registered, one each
C30_LastWriterWins ==
    [][(PlainStep /\ ~aborted' /\ ~hung' /\ MastersAbove(hist'.parent) # << >>) =>
          LET masters == MastersAbove(hist'.parent)
              top == entities[IdManager_get(map, masters[Len(masters)]).cell]
              made == entities'[NewCell]
              last == Instances'[Len(Instances')]
          IN  /\ Len(Instances') = Len(Instances) + Len(masters)
              /\ made.space_component.kind =
                    (IF top.space_component = GameSpaceMaster
                     THEN "GameSpaceComponent" ELSE "ScreenSpaceComponent")
              /\ made.render_component.kind =
                    (IF top.space_component = GameSpaceMaster
                     THEN "SingleModelComponent" ELSE "SingleSpriteComponent")
              /\ last.instance_type =
                    (IF top.space_component = GameSpaceMaster
                     THEN "Model" ELSE "Sprite")
              /\ made.space_component.instance = get_ref(last)
              /\ made.render_component.instance_ref = get_ref(last)]_vars

\* an entity was made below a screen space master that sits below the game
\* space master, and holds the game space delegates
C30_Witness ==
    /\ ~aborted /\ ~hung
    /\ hist.override \notin MasterKinds
    /\ Len(entities) >= 4
    /\ LET made == entities[Len(entities)]
           parent == entities[IdManager_get(map, made.parent_id).cell]
       IN  /\ made.space_component.kind = "GameSpaceComponent"
           /\ parent.space_component = ScreenSpaceMaster
           /\ parent.parent_id = entities[2].id
           /\ Instances[Len(Instances) - 1].instance_type = "Sprite"


IsPrefix(s, t) == Len(s) <= Len(t) /\ \A i \in DOMAIN s : t[i] = s[i]

\* the cells a traversal from the root comes to along the child lists
RECURSIVE ReachedFrom(_, _, _)
ReachedFrom(ents, cells, fuel) ==
    IF fuel = 0 THEN cells
    ELSE ReachedFrom(ents,
             cells \cup UNION {Range(ents[c].children) : c \in cells}, fuel - 1)

Reached(ents) == IF ents = << >> THEN {} ELSE ReachedFrom(ents, {1}, Len(ents))

\* C29: no step removes anything: the registered ids, the flat entity list,
\* every child list and the instance list only grow at the end, an id that
\* resolved to an entity goes on resolving to it, and an entity a traversal
\* from the root came to is still come to
C29_OnlyGrows ==
    [][/\ DOMAIN map \subseteq DOMAIN map'
       /\ Len(entities) <= Len(entities')
       /\ \A c \in DOMAIN entities :
             /\ entities'[c].id = entities[c].id
             /\ entities'[c].parent_id = entities[c].parent_id
             /\ IsPrefix(entities[c].children, entities'[c].children)
       /\ Len(Instances) <= Len(Instances')
       /\ \A i \in DOMAIN Instances :
             /\ Instances'[i].instance_type = Instances[i].instance_type
             /\ get_ref(Instances'[i]) = get_ref(Instances[i])
       /\ \A id \in DOMAIN map :
             map[id].kind = "Entity" => IdManager_get(map', id) = map[id]
       /\ Reached(entities) \subseteq Reached(entities')]_vars

\* after a frame: a graph with two entities under one parent, a registered
\* component and two instances
C29_Witness ==
    /\ ~aborted /\ ~hung
    /\ frame_log # << >>
    /\ Len(entities) >= 4
    /\ \E c \in DOMAIN entities : Len(entities[c].children) >= 2
    /\ \E id \in DOMAIN map : map[id].kind = "Component"
    /\ Len(Instances) >= 2
    /\ Reached(entities) = DOMAIN entities


\* the handler was transform
TransformStep == space_call'.method = "transform"

\* C31: transform(v) on a GameSpaceComponent calls translate(v) and then
\* rotate(v): a 3-element v adds exactly one position-add to the queue of the
\* instance, a 4-element v exactly one rotation-add, any other length nothing;
\* each call that refuses the vector prints its line, translate's first; no
\* other queue changes
C31_Transform ==
    [][TransformStep =>
          LET sc == entities[space_call'.cell].space_component
              v == space_call'.vector
              q == sc.instance.changes_buffer
          IN  sc.kind = "GameSpaceComponent" =>
                /\ change_cells'[q] = change_cells[q] \o
                      (IF Len(v) = 3 THEN << PositionAdd(v) >>
                       ELSE IF Len(v) = 4 THEN << RotationAdd(v) >>
                       ELSE << >>)
                /\ \A k \in DOMAIN change_cells :
                      k # q => change_cells'[k] = change_cells[k]
                /\ DOMAIN change_cells' = DOMAIN change_cells
                /\ [i \in DOMAIN notice_log' |-> notice_log'[i].method] =
                      (IF Len(v) = 3 THEN <<"rotate">>
                       ELSE IF Len(v) = 4 THEN <<"translate">>
                       ELSE <<"translate", "rotate">>)
                /\ instance_manager' = instance_manager
                /\ entities' = entities
                /\ ~aborted']_vars

\* a 4-element transform added a rotation to a queue that held the position
\* a 3-element transform added
C31_Witness ==
    /\ space_call.method = "transform"
    /\ Len(space_call.vector) = 4
    /\ LET q == change_cells[entities[space_call.cell].space_component
                                 .instance.changes_buffer]
       IN  /\ Len(q) >= 2
           /\ q[Len(q)] = RotationAdd(<<1, 0, 0, 0>>)
           /\ q[Len(q) - 1] = PositionAdd(<<1, 0, 0>>)


\* the instance engine under the frame loop: registrations made directly and
\* through entities placed by the game space master, pushes through every
\* issued handle, and ticks
NextEngine ==
    \/ \E parent \in MasterIds : \E d \in EntityDesc : NewEntity(parent, d)
    \/ \E d \in InstanceDesc : RegisterInstance(d)
    \/ \E ref \in Handles : \E c \in InstanceChange : HandlePush(ref, c)
    \/ StartupTick
    \/ Redraw

SpecEngine == Init /\ [][NextEngine]_vars

\* the instances of the type of instance number i registered before it
EarlierOfType(i) ==
    {k \in 1..(i - 1) : Instances[k].instance_type = Instances[i].instance_type}

\* the handles the entities' delegates hold
DelegateHandles ==
    {entities[c].space_component.instance : c \in PlacedCells}
    \cup {entities[c].render_component.instance_ref : c \in RenderingCells}

\* C32: the slot index of every instance is the number of instances of its
\* type registered before it, so the indices of one type are distinct and are
\* 0..n-1; every handle of an instance, the entities' delegates' included,
\* reads that index; and while no registration is pending the record at
\* position k of the 3D (2D) buffer is the packed record a rebuild takes from
\* the Model (Sprite) instance with slot index k
C32_SlotIndex ==
    /\ \A i \in DOMAIN Instances :
          /\ buffer_id_cells[Instances[i].buffer_id] = Cardinality(EarlierOfType(i))
          /\ get_instance_id(buffer_id_cells, get_ref(Instances[i]))
                = Cardinality(EarlierOfType(i))
    /\ \A i, j \in DOMAIN Instances :
          (i # j /\ Instances[i].instance_type = Instances[j].instance_type)
              => buffer_id_cells[Instances[i].buffer_id]
                     # buffer_id_cells[Instances[j].buffer_id]
    /\ \A h \in DelegateHandles : \E i \in DOMAIN Instances :
          /\ h = get_ref(Instances[i])
          /\ get_instance_id(buffer_id_cells, h) = Cardinality(EarlierOfType(i))
    /\ last_tick = "rebuild" =>
          /\ Len(instance_manager.instance_3d_buffer)
                = Cardinality({i \in DOMAIN Instances :
                                  Instances[i].instance_type = "Model"})
          /\ Len(instance_manager.instance_2d_buffer)
                = Cardinality({i \in DOMAIN Instances :
                                  Instances[i].instance_type = "Sprite"})
          /\ \A i \in DOMAIN Instances :
                BufferOf(instance_manager, Instances[i].instance_type)
                    [buffer_id_cells[Instances[i].buffer_id] + 1]
                        = to_raw(Instances[i])

\* a rebuild ran over a Model, a Sprite and a second Model registered in that
\* order, the second Model for an entity
C32_Witness ==
    /\ last_tick = "rebuild"
    /\ Len(Instances) >= 3
    /\ \E i, j, k \in DOMAIN Instances :
          /\ i < j /\ j < k
          /\ Instances[i].instance_type = "Model"
          /\ Instances[j].instance_type = "Sprite"
          /\ Instances[k].instance_type = "Model"
          /\ get_ref(Instances[k]) \in DelegateHandles
          /\ buffer_id_cells[Instances[k].buffer_id] = 1


\* the size of one record of the buffer a write addresses
RecordSize(write) ==
    IF write.buffer = "3d" THEN INSTANCE_RAW_3D_SIZE ELSE INSTANCE_RAW_2D_SIZE

\* the number of records of the buffer a write addresses
RecordsIn(write) ==
    IF write.buffer = "3d" THEN Len(instance_manager.instance_3d_buffer)
    ELSE Len(instance_manager.instance_2d_buffer)

\* C33: every write a tick issues is issued by a tick that did not rebuild,
\* starts at a record boundary, and addresses a slot strictly below the number
\* of records the most recent rebuild put in the buffer of that type
C33_WritesInRange ==
    /\ write_log # << >> => last_tick = "partial"
    /\ \A k \in DOMAIN write_log :
          /\ write_log[k].offset % RecordSize(write_log[k]) = 0
          /\ write_log[k].offset \div RecordSize(write_log[k]) < RecordsIn(write_log[k])

\* a tick wrote the last record of a buffer of two or more records while
\* instances of both types are registered
C33_Witness ==
    /\ last_tick = "partial"
    /\ \E k \in DOMAIN write_log :
          /\ write_log[k].offset >= RecordSize(write_log[k])
          /\ write_log[k].offset \div RecordSize(write_log[k]) = RecordsIn(write_log[k]) - 1
    /\ instance_manager.instance_3d_buffer # << >>
    /\ instance_manager.instance_2d_buffer # << >>


\* what one step does to the instances and queues there before it: a tick
\* that does not rebuild applies each queue to its instance, in order, and
\* empties it; any other step, a rebuilding tick included, leaves position
\* and rotation alone and removes nothing from a queue
AppliedOnceStep ==
    \A i \in 1..Len(Instances) :
        IF TickStep /\ ~instance_manager.needs_buffer_remake
        THEN /\ After(i).position = Applied(i, QueueOf(Instances[i])).position
             /\ After(i).rotation = Applied(i, QueueOf(Instances[i])).rotation
             /\ change_cells'[Instances[i].change_buffer] = << >>
        ELSE /\ After(i).position = Instances[i].position
             /\ After(i).rotation = Instances[i].rotation
             /\ IsPrefix(QueueOf(Instances[i]),
                         change_cells'[Instances[i].change_buffer])

\* C34: a mutation enqueued through a handle is applied exactly once, at the
\* first instance-engine tick after it that does not rebuild: that tick
\* applies the whole queue and empties it, and no other step, a rebuilding
\* tick included, applies or removes a queued mutation; so a queued mutation
\* is applied by the first later tick that no registration precedes
C34_AppliedOnceAtFirstPartial == [][AppliedOnceStep]_vars

\* a tick that did not rebuild has applied two mutations that a rebuilding
\* tick before it had left queued
C34_Witness ==
    /\ last_tick = "partial"
    /\ Len(write_log) = 1
    /\ \E i \in DOMAIN Instances :
          /\ QueueOf(Instances[i]) = << >>
          /\ i \in DOMAIN hist.inst_desc
          /\ Instances[i].position # hist.inst_desc[i].position
          /\ Instances[i].rotation # hist.inst_desc[i].rotation


\* what one step does to the handles issued before it: the handle of every
\* instance, and every handle an entity's delegate holds, stays the handle of
\* the same instance; a push through a handle appends to the queue its
\* instance drains; and a tick that does not rebuild applies what the handle's
\* queue holds and leaves that same queue empty
AttachedStep ==
    /\ \A i \in 1..Len(Instances) : get_ref(After(i)) = get_ref(Instances[i])
    /\ \A c \in PlacedCells :
          /\ entities'[c].space_component.instance = entities[c].space_component.instance
          /\ entities[c].space_component.instance \in Handles
    /\ \A ref \in Handles : \A change \in InstanceChange :
          HandlePush(ref, change) =>
              \A i \in 1..Len(Instances) :
                  change_cells'[After(i).change_buffer] =
                      IF get_ref(Instances[i]) = ref
                      THEN Append(QueueOf(Instances[i]), change)
                      ELSE QueueOf(Instances[i])
    /\ (TickStep /\ ~instance_manager.needs_buffer_remake) =>
          \A ref \in Handles : \A i \in 1..Len(Instances) :
              get_ref(Instances[i]) = ref =>
                  /\ After(i).position
                        = Applied(i, change_cells[ref.changes_buffer]).position
                  /\ After(i).rotation
                        = Applied(i, change_cells[ref.changes_buffer]).rotation
                  /\ change_cells'[ref.changes_buffer] = << >>

\* C35: draining a queue in a tick detaches no handle: every handle issued,
\* the clones the entities' delegates hold included, keeps feeding the queue
\* its instance drains, whatever number of drains went before; an operation
\* pushed after a tick is applied by the next tick that does not rebuild, and
\* that tick leaves the queue empty, so no drained operation is applied again
C35_HandlesStayAttached == [][AttachedStep]_vars

\* the same handle fed its instance twice with a drain in between: the last
\* tick drained one add_pos and the instance has moved by two
C35_Witness ==
    /\ last_tick = "partial"
    /\ \E i \in DOMAIN Instances :
          /\ i \in DOMAIN hist.drained
          /\ hist.drained[i] = <<PositionAdd(AddVec)>>
          /\ i \in DOMAIN hist.inst_desc
          /\ Instances[i].position
                = Vector3_add(Vector3_add(hist.inst_desc[i].position,
                                          Vector3_from(AddVec)),
                              Vector3_from(AddVec))


\* ---------------------------------------------------------------------
\* The event bus with subscribers whose input calls back into the
\* dispatcher.
\* ---------------------------------------------------------------------

\* ids the calling components are registered under
HandlerIds == {30, 31}

HandlerObjects == {QuietObject, SendingObject, RegisteringObject}

NextReentrant ==
    \/ \E id \in HandlerIds : \E c \in HandlerObjects : RegisterComponent(id, c)
    \/ \E e \in EventDomain : SendEvent("a", e)
    \/ \E id \in HandlerIds : RegisterDestination("a", id)
    \/ StartupTick
    \/ Redraw

SpecReentrant == Init /\ [][NextReentrant]_vars

\* the drain about to run will call the input of a subscriber that sends an
\* event or registers a destination through its clone of the dispatcher
ReentrantPending ==
    \E k \in DOMAIN event_queue :
        /\ event_queue[k].destination \in DOMAIN destinations
        /\ \E i \in DOMAIN destinations[event_queue[k].destination] :
              borrows_dispatcher(map, destinations[event_queue[k].destination][i])

\* C36 as stated: when an input called from process_events sends an event or
\* registers a destination through a clone of the dispatcher, process_events
\* completes without aborting the process and leaves the queue empty, every
\* queued event having been handed to its subscribers
C36_ReentrantSendCompletes ==
    [][(TickStep /\ ReentrantPending) =>
          /\ ~aborted'
          /\ event_queue' = << >>
          /\ \A k \in DOMAIN event_queue :
                \E t \in DOMAIN input_log' :
                    /\ input_log'[t].slot = k
                    /\ input_log'[t].event = event_queue[k].event]_vars


\* ---------------------------------------------------------------------
\* Events sent after the drain of a frame: by the tick of a component and
\* between frames.
\* ---------------------------------------------------------------------

\* a component whose tick sends an event
CompE == Component(105, "No", "send_event")

EntityDescLate ==
    [position : PosDomain, rotation : DescRotDomain, components : {<<CompE>>, <<CompN>>}]

NextLate ==
    \/ \E d \in EntityDescLate : NewEntityComp(0, d)
    \/ SendEvent("a", "e1")
    \/ \E id \in EntityIds : RegisterDestination("a", id)
    \/ StartupTick
    \/ Redraw

SpecLate == Init /\ [][NextLate]_vars

\* the input calls a drain makes for the event at slot k of the queue
InputsOf(log, k) == SelectSeq(log, LAMBDA t : t.slot = k)

\* the number of ticks of sending components in a log of component calls
TickSends(log) ==
    Cardinality({t \in DOMAIN log : log[t].call = "tick" /\ log[t].component = CompE.id})

\* C37: an event sent after the drain of a frame, by the tick of a component
\* or between frames, is delivered to nobody in that frame and is delivered
\* once, in the drain of the next frame: a frame hands each event queued
\* before it to that event's subscribers, once for each entry of the
\* subscriber list, hands out no other event, and leaves on the queue exactly
\* the events its ticks sent; a step that is not a frame delivers nothing and
\* removes nothing from the queue
C37_SentAfterDrainWaits ==
    [][IF TickStep
       THEN /\ \A t \in DOMAIN input_log' : input_log'[t].slot \in DOMAIN event_queue
            /\ \A k \in DOMAIN event_queue :
                  InputsOf(input_log', k)
                      = SelectSeq(dispatch(event_queue[k], k, destinations, map),
                                  LAMBDA t : t.kind = "input")
            /\ event_queue' = [j \in 1..TickSends(component_log') |-> TickSent]
       ELSE /\ input_log' = << >>
            /\ IsPrefix(event_queue, event_queue')]_vars

\* a frame has delivered an event sent by a component's tick in the frame
\* before and an event sent between the two frames, and its own ticks have
\* queued another
C37_Witness ==
    /\ \E t \in DOMAIN input_log : input_log[t].event = TickSent.event
    /\ \E t \in DOMAIN input_log : input_log[t].event = "e1"
    /\ event_queue = <<TickSent>>


\* ---------------------------------------------------------------------
\* Entities made directly under the root, next to entities placed by the
\* game space master, with player controllers installed on either.
\* ---------------------------------------------------------------------

\* SystemManager::new_system with a PlayerControllerSystem on this entity
NewSystem(player_entity) ==
    /\ ~aborted /\ ~hung
    /\ hist.env < MaxEnv
    /\ Commit(new_system(Global, player_entity))
    /\ hist' = [hist EXCEPT
                  !.env = @ + 1, !.drained = << >>, !.synced = {},
                  !.registered = Registered(@, next_id(Global).id,
                        [kind |-> "System",
                         system |-> [player_entity |-> player_entity]])]
    /\ UNCHANGED in_loop

NextPlain ==
    \/ \E parent \in {0} \cup MasterIds : \E d \in EntityDesc : NewEntity(parent, d)
    \/ \E cell \in Created : NewSystem(cell)
    \/ \E cell \in Created : \E method \in SpaceMethods : \E vector \in VecDomain :
          SpaceCall(cell, method, vector)
    \/ StartupTick
    \/ Redraw

SpecPlain == Init /\ [][NextPlain]_vars

\* the entities made directly under the root; none is made with overrides
RootPlain == {c \in Created : entities[c].parent_id = 0}

\* the set_pos calls the controllers make in one system tick that reach the
\* queue of instance number i
ControllerPushes(i) ==
    LET reaching == {id \in SystemIds(map) :
                        LET sc == entities[map[id].system.player_entity].space_component
                        IN  /\ sc.kind = "GameSpaceComponent"
                            /\ sc.instance = get_ref(Instances[i])}
    IN  [k \in 1..Cardinality(reaching) |-> PositionSet(CameraPos)]

\* C38: an entity made directly under the root without overrides goes through
\* a cascade of zero steps and keeps the no-op space and render delegates in
\* every later step; making it registers no instance and queues nothing; a
\* translate, rotate, set_pos or set_rot on it queues nothing and prints
\* nothing; a frame collects no render command for it; and the set_pos a
\* player controller makes on it in every system tick reaches no queue, the
\* queues of a frame growing only by the set_pos of the controllers whose
\* player a space master placed
C38_RootChildStaysInert ==
    [][/\ \A c \in RootPlain :
             /\ entities'[c].space_component = NoSpaceComponent
             /\ entities'[c].render_component = NoRender
       /\ (NewEntityStep /\ hist'.parent = 0) =>
             /\ init_log' = << >>
             /\ entities'[NewCell].space_component = NoSpaceComponent
             /\ entities'[NewCell].render_component = NoRender
             /\ instance_manager' = instance_manager
             /\ change_cells' = change_cells
             /\ buffer_id_cells' = buffer_id_cells
       /\ (space_call'.method # "none" /\ space_call'.cell \in RootPlain) =>
             /\ change_cells' = change_cells
             /\ instance_manager' = instance_manager
             /\ notice_log' = << >>
       /\ TickStep =>
             /\ Len(render_commands') =
                   (IF RenderStep THEN Cardinality(RenderingCells) ELSE 0)
             /\ RootPlain \cap RenderingCells = {}
             /\ \A i \in 1..Len(Instances) :
                   change_cells'[Instances[i].change_buffer] =
                       IF instance_manager.needs_buffer_remake
                       THEN QueueOf(Instances[i]) \o ControllerPushes(i)
                       ELSE << >>]_vars

\* a player controller holds an entity made under the root, frames have run
\* with it installed next to a placed entity, and a set_pos was then called
\* on the entity: it has the no-op delegates and every queue is empty
C38_Witness ==
    /\ in_loop
    /\ hist.ticked
    /\ space_call.method = "set_pos"
    /\ space_call.cell \in RootPlain
    /\ \E id \in SystemIds(map) : map[id].system.player_entity = space_call.cell
    /\ entities[space_call.cell].space_component = NoSpaceComponent
    /\ PlacedCells # {}
    /\ \A c \in DOMAIN change_cells : change_cells[c] = << >>


\* ---------------------------------------------------------------------
\* Chains of space masters under the frame loop.
\* ---------------------------------------------------------------------

NextChain ==
    \/ \E parent \in EntityIds : \E d \in EntityDesc : NewPlain(parent, d)
    \/ \E parent \in MasterIds : \E d \in EntityDesc : \E s \in MasterKinds :
          NewMaster(parent, d, s)
    \/ StartupTick
    \/ Redraw

SpecChain == Init /\ [][NextChain]_vars

\* the number of space masters that are proper ancestors of the entity in a cell
MastersOver(c) == Len(MastersAbove(entities[c].parent_id))

\* the pairs of a created entity and a space master above it, counted over
\* the cells from this one on
RECURSIVE MasterPairs(_)
MasterPairs(c) ==
    IF c > Len(entities) THEN 0 ELSE MastersOver(c) + MasterPairs(c + 1)

\* the instances whose handle no delegate of an entity holds
Unreferenced ==
    {i \in DOMAIN Instances :
        \A c \in DOMAIN entities :
            /\ (entities[c].space_component.kind
                    \in {"GameSpaceComponent", "ScreenSpaceComponent"}
                  => entities[c].space_component.instance # get_ref(Instances[i]))
            /\ (c \in RenderingCells
                  => entities[c].render_component.instance_ref # get_ref(Instances[i]))}

\* the instances the masters above the entity in a cell registered for it and
\* that its delegates do not hold
Orphans(c) == IF c \in PlacedCells THEN MastersOver(c) - 1 ELSE MastersOver(c)

RECURSIVE OrphanSum(_)
OrphanSum(c) == IF c > Len(entities) THEN 0 ELSE Orphans(c) + OrphanSum(c + 1)

SetPosEvent == SendValueWith("set pos", SetVec)

EntityDescInput ==
    [position : PosDomain, rotation : DescRotDomain, components : {<< >>, <<CompS>>}]

\* Entity::space_component() and input on the delegate
SpaceInput(cell, event) ==
    /\ ~aborted /\ ~hung
    /\ hist.env < MaxEnv
    /\ \E r \in {SpaceComponent_input(EngineOf(Global),
                        entities[cell].space_component, event)} :
           /\ Commit([Global EXCEPT
                        !.ccells = r.st.ccells,
                        !.response = [of |-> "space_input",
                                      entity |-> entities[cell].id,
                                      event |-> event, value |-> r.response]])
           /\ hist' = [hist EXCEPT
                        !.env = @ + 1, !.drained = << >>, !.synced = {},
                        !.env_pushed = IF r.st.ccells = change_cells THEN @
                                       ELSE @ \cup {entities[cell].space_component
                                                        .instance.changes_buffer}]
    /\ UNCHANGED in_loop

NextSpaceInput ==
    \/ \E parent \in MasterIds : \E d \in EntityDescInput : NewEntityComp(parent, d)
    \/ \E cell \in PlacedCells : EntityInput(entities[cell].id, SetPosEvent)
    \/ \E cell \in PlacedCells : SpaceInput(cell, SetPosEvent)
    \/ SendEvent("a", SetPosEvent)
    \/ \E cell \in PlacedCells : RegisterDestination("a", entities[cell].id)
    \/ StartupTick
    \/ Redraw

SpecSpaceInput == Init /\ [][NextSpaceInput]_vars

\* the input calls a log of component calls holds
InputCalls(log) == SelectSeq(log, LAMBDA t : t.call = "input")

\* the input calls on the components of the entities a drain delivers to, in
\* the order of the deliveries
RECURSIVE DeliveredCalls(_)
DeliveredCalls(log) ==
    IF log = << >> THEN << >>
    ELSE component_calls(entities[IdManager_get(map, Head(log).id).cell], "input")
         \o DeliveredCalls(Tail(log))

\* C40: an event handed to an entity, by Entity::input or by the bus,
\* reaches the entity's components and never the input of its space
\* delegate: Entity::input answers with the fold of the components' answers,
\* No without components, and leaves every queue and instance as it was, also
\* for SendValueWith "set pos" on an entity bound to a GameSpaceComponent; a
\* frame that delivers such events calls input on the subscribers'
\* components only, and its instance tick finds the queues as they were
\* before the frame
C40_InputSkipsSpaceDelegate ==
    [][/\ InputStep =>
             /\ change_cells' = change_cells
             /\ instance_manager' = instance_manager
             /\ response'.value =
                   fold_with("No",
                       [i \in DOMAIN entities[IdManager_get(map, response'.entity).cell]
                                         .components |->
                           entities[IdManager_get(map, response'.entity).cell]
                               .components[i].answer])
             /\ component_log' =
                   component_calls(entities[IdManager_get(map, response'.entity).cell],
                                   "input")
       /\ TickStep =>
             /\ InputCalls(component_log') = DeliveredCalls(input_log')
             /\ \A i \in 1..Len(Instances) :
                   IF instance_manager.needs_buffer_remake
                   THEN /\ change_cells'[Instances[i].change_buffer]
                              = QueueOf(Instances[i])
                        /\ After(i).position = Instances[i].position
                   ELSE /\ change_cells'[Instances[i].change_buffer] = << >>
                        /\ After(i).position
                              = Applied(i, QueueOf(Instances[i])).position]_vars

\* Entity::input was given SendValueWith "set pos" on an entity bound to a
\* GameSpaceComponent and without components: the answer is No and the queue
\* of its instance holds no set_pos, while the same event given to the
\* delegate of another placed entity is queued there
C40_Witness ==
    /\ response.of = "input"
    /\ response.event = SetPosEvent
    /\ response.value = "No"
    /\ \E c \in PlacedCells :
          /\ entities[c].id = response.entity
          /\ entities[c].space_component.kind = "GameSpaceComponent"
          /\ entities[c].components = << >>
          /\ \A k \in DOMAIN change_cells[entities[c].space_component
                                              .instance.changes_buffer] :
                change_cells[entities[c].space_component.instance.changes_buffer][k]
                    # PositionSet(SetVec)
    /\ \E d \in PlacedCells :
          \E k \in DOMAIN change_cells[entities[d].space_component
                                            .instance.changes_buffer] :
              change_cells[entities[d].space_component.instance.changes_buffer][k]
                  = PositionSet(SetVec)

====
